---------------------------- MODULE Spec2Model ----------------------------
(***************************************************************************)
(* Option analytics engine of stock_analysis: the Black-Scholes kernel     *)
(* (options_math.py), the implied-volatility bisection built on it and the *)
(* delta-targeted strike selector (engine.py).                             *)
(*                                                                         *)
(* Python floats are modelled as decimal fixed-point integers, because TLC *)
(* integers are 32 bits wide:                                              *)
(*   P9  prices, spot, strike, probabilities, discount factors: 10^-9      *)
(*   S8  volatility, time in years, rates, d1, d2, logarithms:   10^-8     *)
(* so that the solver's constants are all representable: 1e-9 is 1 (P9),   *)
(* tol = 1e-6 is 1000 (P9), lo = 1e-6 is 100 (S8), hi = 5.0 is 5*10^8 (S8).*)
(* Products are formed exactly in base-1000 limbs and then truncated, the  *)
(* fixed-point counterpart of IEEE rounding.                               *)
(***************************************************************************)
EXTENDS Integers, Sequences, FiniteSets, TLC

ONE9 == 10^9
ONE8 == 10^8

Abs(x) == IF x < 0 THEN -x ELSE x
Sgn(x) == IF x > 0 THEN 1 ELSE IF x < 0 THEN -1 ELSE 0
Max(x, y) == IF x >= y THEN x ELSE y
Min(x, y) == IF x <= y THEN x ELSE y
\* integer division truncating toward zero
TDiv(a, n) == Sgn(a) * (Abs(a) \div n)

(***************************************************************************)
(* Float multiplication.  With a = a2*10^6 + a1*10^3 + a0 and b likewise,  *)
(* the exact product of two non-negative integers is                       *)
(*   a*b = ProdTop(a, b) * 10^9 + ProdMid(a, b) * 10^6 + (lower digits).   *)
(***************************************************************************)
ProdTop(a, b) ==
  LET a1 == (a \div 1000) % 1000
      a2 == a \div 1000000
      b1 == (b \div 1000) % 1000
      b2 == b \div 1000000
  IN  a2 * b2 * 1000 + a2 * b1 + a1 * b2

ProdMid(a, b) ==
  LET a0 == a % 1000
      a1 == (a \div 1000) % 1000
      a2 == a \div 1000000
      b0 == b % 1000
      b1 == (b \div 1000) % 1000
      b2 == b \div 1000000
  IN  a2 * b0 + a1 * b1 + a0 * b2
        + ((a1 * b0 + a0 * b1 + ((a0 * b0) \div 1000)) \div 1000)

\* x * y where one factor is P9: the result has the scale of the other factor
Mul9(x, y) ==
  Sgn(x) * Sgn(y) * (ProdTop(Abs(x), Abs(y)) + (ProdMid(Abs(x), Abs(y)) \div 1000))

\* x * y where one factor is S8: the result has the scale of the other factor
Mul8(x, y) ==
  Sgn(x) * Sgn(y) * (ProdTop(Abs(x), Abs(y)) * 10 + (ProdMid(Abs(x), Abs(y)) \div 100))

(***************************************************************************)
(* Float division.  Div(a, b, k, sat) is a * 10^k / b truncated toward     *)
(* zero, computed by long division one decimal digit at a time; a quotient *)
(* of magnitude sat or more is clamped to sat (a float would hold it; the  *)
(* only such quotients are d1 values whose normal CDF is exactly 0 or 1).  *)
(***************************************************************************)
\* the next quotient digit of r / b for a divisor above 2*10^8, where 10 * r
\* is too wide: d0 estimates it from the leading digits of b
DivDigit(r, b, d0) ==
  IF r >= d0 * (b \div 10) + ((d0 * (b % 10) + 9) \div 10) THEN d0 ELSE d0 - 1

RECURSIVE DivDigits(_, _, _, _)
DivStep(q, r, b, n, d) ==
  DivDigits(q * 10 + d, 10 * (r - d * (b \div 10)) - d * (b % 10), b, n - 1)

DivDigits(q, r, b, n) ==
  IF n = 0 THEN q
  ELSE IF b <= 2 * ONE8
       THEN DivDigits(q * 10 + ((10 * r) \div b), (10 * r) % b, b, n - 1)
       ELSE DivStep(q, r, b, n, DivDigit(r, b, Min(9, r \div (b \div 10))))

Div(a, b, k, sat) ==
  IF Abs(a) \div Abs(b) >= sat \div (10^k) THEN Sgn(a) * Sgn(b) * sat
  ELSE Sgn(a) * Sgn(b) * Min(sat, DivDigits(Abs(a) \div Abs(b), Abs(a) % Abs(b), Abs(b), k))

(***************************************************************************)
(* math.exp: Taylor series on a P9 argument of magnitude at most 1.        *)
(***************************************************************************)
RECURSIVE ExpTaylor(_, _, _, _)
ExpTaylor(x9, term, sum, n) ==
  IF term = 0 THEN sum
  ELSE ExpTaylor(x9, TDiv(Mul9(term, x9), n), sum + term, n + 1)

RECURSIVE Squared(_, _)
Squared(y, n) == IF n = 0 THEN y ELSE Squared(Mul9(y, y), n - 1)

\* math.exp on an S8 argument, result P9.  Arguments above 1/2 in magnitude
\* are negative here (they are -x*x of the error function): exp(x) is
\* exp(x/64)^64.
Exp(x) ==
  Squared(ExpTaylor(IF Abs(x) <= ONE8 \div 2 THEN x * 10
                    ELSE Sgn(x) * ((Abs(x) \div 64) * 10 + (((Abs(x) % 64) * 10) \div 64)),
                    ONE9, 0, 1),
          IF Abs(x) <= ONE8 \div 2 THEN 0 ELSE 6)

(***************************************************************************)
(* math.log of a ratio y (S8), result S8: 2 * atanh(z), z = (y-1)/(y+1).   *)
(***************************************************************************)
RECURSIVE LnSeries(_, _, _, _)
LnSeries(z2, term, sum, n) ==
  IF term = 0 THEN sum
  ELSE LnSeries(z2, Mul9(term, z2), sum + TDiv(term, n), n + 2)

Atanh2(z) == TDiv(2 * LnSeries(Mul9(z, z), z, 0, 1), 10)

Ln(y) == Atanh2(Div(y - ONE8, y + ONE8, 9, 2 * ONE9))

(***************************************************************************)
(* math.sqrt of an S8 argument, result S8, by Newton's iteration from      *)
(* above: r is the current iterate and r2 the next one.                    *)
(***************************************************************************)
RECURSIVE SqrtNewton(_, _, _)
SqrtNewton(t, r, r2) ==
  IF r2 >= r THEN r
  ELSE SqrtNewton(t, r2, (r2 + Div(t, r2, 8, 21 * ONE8)) \div 2)

Sqrt(t) == IF t <= 0 THEN 0 ELSE SqrtNewton(t, 5 * ONE8, (5 * ONE8 + (t \div 5)) \div 2)

(***************************************************************************)
(* math.erf on an S8 argument, result P9.  The complementary error         *)
(* function is evaluated by the Chebyshev fit                              *)
(*   erfc(x) = t * exp(-x*x - 1.26551223 + t*(1.00002368 + t*(...))),      *)
(*   t = 1 / (1 + x/2),  x >= 0                                            *)
(* (fractional error below 1.2e-7); beyond 4.5 erfc is below the P9        *)
(* resolution and erf is exactly 1, as math.erf is exactly 1.0 beyond 5.93.*)
(***************************************************************************)
ErfcCoef == << 170872770, -822152230, 1488515870, -1135203980, 278868070,
               -186288060, 96784180, 374091960, 1000023680 >>

RECURSIVE Horner(_, _, _)
Horner(h, t, i) ==
  IF i > Len(ErfcCoef) THEN h ELSE Horner(Mul9(h, t) + ErfcCoef[i], t, i + 1)

ErfcFit(x, t) ==
  Mul9(t, Exp(TDiv(Mul9(Horner(ErfcCoef[1], t, 2), t), 10) - 126551223 - Mul8(x, x)))

Erfc(x) ==
  IF x >= 45 * 10^7 THEN 0 ELSE ErfcFit(x, Div(ONE8, ONE8 + (x \div 2), 9, 2 * ONE9))

Erf(x) == Sgn(x) * (ONE9 - Erfc(Abs(x)))

\* _norm_cdf: 0.5 * (1.0 + math.erf(x / math.sqrt(2.0))), x S8, result P9
norm_cdf(x) == (ONE9 + Erf(Mul9(x, 707106781))) \div 2


(***************************************************************************)
(* Pricing kernel.  BsInputs is the record [s, k, t, r, q]: s and k are    *)
(* P9, t, r and q are S8.  The locals vsqrt and d1 of the kernel functions *)
(* are parameters of the operators that use them.                          *)
(***************************************************************************)
BsInputs(s, k, t, r, q) == [s |-> s, k |-> k, t |-> t, r |-> r, q |-> q]

\* magnitude at which d1 is clamped: the normal CDF is exactly 0 or 1 there
DSat == 16 * ONE8

\* math.exp(-rate * inp.t)
Discount(rate, t) == Exp(-Mul8(rate, t))

\* f = inp.s * math.exp((inp.r - inp.q) * inp.t)
Forward(inp) == Mul9(inp.s, Exp(Mul8(inp.r - inp.q, inp.t)))

\* vsqrt = sigma * math.sqrt(inp.t)
VSqrt(inp, sigma) == Mul8(sigma, Sqrt(inp.t))

\* d1 = (log(s / k) + (r - q + 0.5 * sigma * sigma) * t) / vsqrt
D1(inp, sigma, vsqrt) ==
  Div(Ln(Div(inp.s, inp.k, 8, DSat))
        + Mul8(inp.r - inp.q + Mul8(Mul9(500000000, sigma), sigma), inp.t),
      vsqrt, 8, DSat)

\* pv_k * nd2 - pv_s * nd1, with d2 = d1 - vsqrt
PutValue(inp, d1, vsqrt) ==
  Mul9(Mul9(inp.k, Discount(inp.r, inp.t)), norm_cdf(-(d1 - vsqrt)))
    - Mul9(Mul9(inp.s, Discount(inp.q, inp.t)), norm_cdf(-d1))

PutValueAt(inp, sigma, vsqrt) == PutValue(inp, D1(inp, sigma, vsqrt), vsqrt)

bs_put_price(inp, sigma) ==
  IF inp.t <= 0 THEN Max(inp.k - inp.s, 0)
  ELSE IF sigma <= 0
       THEN Mul9(Discount(inp.r, inp.t), Max(inp.k - Forward(inp), 0))
       ELSE PutValueAt(inp, sigma, VSqrt(inp, sigma))

\* faulty variant: the zero-volatility branch is tested before T <= 0
bs_put_delta_SigmaFirst(inp, sigma) ==
  IF sigma <= 0
  THEN (IF Forward(inp) < inp.k THEN -Discount(inp.q, inp.t) ELSE 0)
  ELSE IF inp.t <= 0 THEN (IF inp.s < inp.k THEN -ONE9 ELSE 0)
       ELSE -Mul9(Discount(inp.q, inp.t), norm_cdf(-D1(inp, sigma, VSqrt(inp, sigma))))

\* the delta is P9
bs_put_delta(inp, sigma) ==
  IF inp.t <= 0 THEN (IF inp.s < inp.k THEN -ONE9 ELSE 0)
  ELSE IF sigma <= 0
       THEN (IF Forward(inp) < inp.k THEN -Discount(inp.q, inp.t) ELSE 0)
       ELSE -Mul9(Discount(inp.q, inp.t),
                  norm_cdf(-D1(inp, sigma, VSqrt(inp, sigma))))

(***************************************************************************)
(* Call side of the kernel: the mirror image of the put formulas           *)
(*   CallPrice = S e^(-qT) N(d1) - K e^(-rT) N(d2),                        *)
(*   CallDelta = e^(-qT) N(d1)                                             *)
(* with the same T <= 0 and sigma <= 0 policies.                           *)
(***************************************************************************)
CallValue(inp, d1, vsqrt) ==
  Mul9(Mul9(inp.s, Discount(inp.q, inp.t)), norm_cdf(d1))
    - Mul9(Mul9(inp.k, Discount(inp.r, inp.t)), norm_cdf(d1 - vsqrt))

CallValueAt(inp, sigma, vsqrt) == CallValue(inp, D1(inp, sigma, vsqrt), vsqrt)

bs_call_price(inp, sigma) ==
  IF inp.t <= 0 THEN Max(inp.s - inp.k, 0)
  ELSE IF sigma <= 0
       THEN Mul9(Discount(inp.r, inp.t), Max(Forward(inp) - inp.k, 0))
       ELSE CallValueAt(inp, sigma, VSqrt(inp, sigma))

bs_call_delta(inp, sigma) ==
  IF inp.t <= 0 THEN (IF inp.s > inp.k THEN ONE9 ELSE 0)
  ELSE IF sigma <= 0
       THEN (IF Forward(inp) > inp.k THEN Discount(inp.q, inp.t) ELSE 0)
       ELSE Mul9(Discount(inp.q, inp.t),
                 norm_cdf(D1(inp, sigma, VSqrt(inp, sigma))))

(***************************************************************************)
(* Implied-volatility solver.                                              *)
(* Optional[float]: None, or Some(v).                                      *)
(***************************************************************************)
None == [ok |-> FALSE, v |-> 0]
Some(x) == [ok |-> TRUE, v |-> x]

\* keyword defaults of implied_vol_put_bisect
lo_default == 100
hi_default == 500000000
max_iter_default == 80
tol_default == 1000
\* the literals of the band test (1e-9, P9) and of the width test (1e-6, S8)
BandTol == 1
WidthTol == 100

PriceOf(right, inp, sigma) ==
  IF right = "put" THEN bs_put_price(inp, sigma) ELSE bs_call_price(inp, sigma)

\* faulty variant: the test of the time to expiry is missing
InvalidInputsNoExpiry(inp, target_price) ==
  target_price <= 0 \/ inp.s <= 0 \/ inp.k <= 0

\* if target_price <= 0 or inp.s <= 0 or inp.k <= 0 or inp.t <= 0: return None
InvalidInputs(inp, target_price) ==
  target_price <= 0 \/ inp.s <= 0 \/ inp.k <= 0 \/ inp.t <= 0

\* basic no-arbitrage bounds
NoArbUpper(right, inp) ==
  IF right = "put" THEN Mul9(inp.k, Discount(inp.r, inp.t))
  ELSE Mul9(inp.s, Discount(inp.q, inp.t))

NoArbLower(right, inp) ==
  IF right = "put"
  THEN Max(Mul9(inp.k, Discount(inp.r, inp.t)) - Mul9(inp.s, Discount(inp.q, inp.t)), 0)
  ELSE Max(Mul9(inp.s, Discount(inp.q, inp.t)) - Mul9(inp.k, Discount(inp.r, inp.t)), 0)

\* faulty variant: the band without its floating-point slack
InBandNoSlack(lower, upper, target_price) ==
  lower <= target_price /\ target_price <= upper

\* lower - 1e-9 <= target_price <= upper + 1e-9
InBand(lower, upper, target_price) ==
  lower - BandTol <= target_price /\ target_price <= upper + BandTol

\* faulty variant: only a root below the interval is detected
NotBracketedAbove(f_lo, f_hi) == f_lo > 0 /\ f_hi > 0

\* f_lo * f_hi > 0: the sign of a product of two floats
NotBracketed(f_lo, f_hi) == Sgn(f_lo) * Sgn(f_hi) > 0

\* faulty variant: the test of the bracket width is missing
ConvergedByPriceOnly(fm, a, b, tol) == Abs(fm) < tol

\* faulty variant: the width test at 1e-7
ConvergedWidthTenth(fm, a, b, tol) == Abs(fm) < tol \/ (b - a) < WidthTol \div 10

\* abs(fm) < tol or (b - a) < 1e-6
Converged(fm, a, b, tol) == Abs(fm) < tol \/ (b - a) < WidthTol

\* faulty variant: the lower endpoint is always the one replaced
RootInLeftHalfNever(fa, fm) == FALSE

\* fa * fm <= 0
RootInLeftHalf(fa, fm) == Sgn(fa) * Sgn(fm) <= 0

\* 0.5 * (a + b)
Midpoint(a, b) == (a + b) \div 2

(***************************************************************************)
(* The solver's frame holds its locals lower, upper, f_lo, f_hi, a, b, fa, *)
(* fb; pc is "loop" while the for loop runs and "done" once the call has   *)
(* returned ret, at the return statement of source line `line`; it counts  *)
(* the loop iterations begun and evals the calls of the price function.    *)
(***************************************************************************)
Frame(pc) == [pc |-> pc, lower |-> 0, upper |-> 0, f_lo |-> 0, f_hi |-> 0,
              a |-> 0, b |-> 0, fa |-> 0, fb |-> 0, it |-> 0, ret |-> None,
              line |-> 0, evals |-> 0]

Returned(fr, ret, line) == [fr EXCEPT !.pc = "done", !.ret = ret, !.line = line]

\* the frame after lines 67-68
Banded(lower, upper) == [Frame("loop") EXCEPT !.lower = lower, !.upper = upper]

\* the frame after lines 72-73 and 84-85
Evaluated(lo, hi, lower, upper, f_lo, f_hi) ==
  [Banded(lower, upper) EXCEPT !.f_lo = f_lo, !.f_hi = f_hi, !.a = lo, !.b = hi,
                               !.fa = f_lo, !.fb = f_hi, !.evals = 2]

\* lines 75-85: the exact roots at the endpoints, the bracket test
BisectBracket(lo, hi, lower, upper, f_lo, f_hi) ==
  IF f_lo = 0 THEN Returned(Evaluated(lo, hi, lower, upper, f_lo, f_hi), Some(lo), 76)
  ELSE IF f_hi = 0 THEN Returned(Evaluated(lo, hi, lower, upper, f_lo, f_hi), Some(hi), 78)
  ELSE IF NotBracketed(f_lo, f_hi)
       THEN Returned(Evaluated(lo, hi, lower, upper, f_lo, f_hi), None, 82)
       ELSE Evaluated(lo, hi, lower, upper, f_lo, f_hi)

\* lines 69-73: the band test, the two evaluations at the endpoints
BisectBand(right, inp, target_price, lo, hi, lower, upper) ==
  IF ~InBand(lower, upper, target_price) THEN Returned(Banded(lower, upper), None, 70)
  ELSE BisectBracket(lo, hi, lower, upper,
                     PriceOf(right, inp, lo) - target_price,
                     PriceOf(right, inp, hi) - target_price)

\* lines 63-85: from the entry to the first loop iteration
BisectEntry(right, inp, target_price, lo, hi) ==
  IF InvalidInputs(inp, target_price) THEN Returned(Frame("loop"), None, 64)
  ELSE BisectBand(right, inp, target_price, lo, hi,
                  NoArbLower(right, inp), NoArbUpper(right, inp))

\* lines 89-94: the stopping test and the update of the bracket
BisectStep(tol, fr, m, fm) ==
  IF Converged(fm, fr.a, fr.b, tol)
  THEN [fr EXCEPT !.pc = "done", !.ret = Some(m), !.line = 90,
                  !.it = fr.it + 1, !.evals = fr.evals + 1]
  ELSE IF RootInLeftHalf(fr.fa, fm)
       THEN [fr EXCEPT !.b = m, !.fb = fm, !.it = fr.it + 1, !.evals = fr.evals + 1]
       ELSE [fr EXCEPT !.a = m, !.fa = fm, !.it = fr.it + 1, !.evals = fr.evals + 1]

\* lines 87-94: one iteration of the for loop
BisectIter(right, inp, target_price, tol, fr) ==
  BisectStep(tol, fr, Midpoint(fr.a, fr.b),
             PriceOf(right, inp, Midpoint(fr.a, fr.b)) - target_price)

\* line 96: the iteration budget is exhausted
BisectExhausted(fr) == Returned(fr, Some(Midpoint(fr.a, fr.b)), 96)

RECURSIVE BisectRun(_, _, _, _, _, _)
BisectRun(right, inp, target_price, max_iter, tol, fr) ==
  IF fr.pc = "done" THEN fr
  ELSE IF fr.it >= max_iter THEN BisectExhausted(fr)
  ELSE BisectRun(right, inp, target_price, max_iter, tol,
                 BisectIter(right, inp, target_price, tol, fr))

\* the value a whole call returns, with the default keyword arguments
ImpliedVol(right, inp, target_price) ==
  BisectRun(right, inp, target_price, max_iter_default, tol_default,
            BisectEntry(right, inp, target_price, lo_default, hi_default)).ret

implied_vol_put_bisect(inp, target_price) == ImpliedVol("put", inp, target_price)

implied_vol_call_bisect(inp, target_price) == ImpliedVol("call", inp, target_price)

(***************************************************************************)
(* State.                                                                  *)
(*   call, fr   one call of implied_vol_put_bisect: its arguments and its  *)
(*              frame (fr.pc = "call" before the body runs, "idle" when no *)
(*              call is made)                                              *)
(*   req        the arguments of one call of find_strike_for_delta         *)
(*   prov       what the Nasdaq collaborator serves: the spot, the chain,  *)
(*              the expiry groups and the premium of one contract, and     *)
(*              which of its calls fails, with what error                  *)
(*   epc        position in find_strike_for_delta                          *)
(*   es, chain  the locals s and chain                                     *)
(*   idx        the index of the next row of the for loop                  *)
(*   best       the local best, with the index of the row it came from     *)
(*   log        per row visited, the locals mid, iv, d and diff            *)
(*   outcome    what the call returned or raised                           *)
(*   eo         one engine operation: its name and arguments, its position,*)
(*              its local s and what it returned or raised                 *)
(*   fetches    the collaborator calls issued so far, in order             *)
(*   quote      one quote of a provider: its bid, ask and last, and the mid*)
(*              price derived from them                                    *)
(*   ht         one call of HttpClient.get_json or get_text: the client's  *)
(*              settings, what the server answers to each attempt, the     *)
(*              attempt counter, last_err, the sleeps made and the result  *)
(*   yf         one YahooFinance instance: its _crumb cache, the operation *)
(*              and the _ensure_crumb call in progress, and counts of the  *)
(*              operations, _ensure_crumb calls and crumb requests so far  *)
(*   scan       one call of Nasdaq.get_put_chain: the payload rows, the    *)
(*              requested expiry, the loop's position, current_group and   *)
(*              puts, and the result                                       *)
(*   kern       one evaluation of the put kernel: its arguments and what   *)
(*              bs_put_price and bs_put_delta returned                     *)
(***************************************************************************)
VARIABLES call, fr, req, prov, epc, es, chain, idx, best, log, outcome,
          eo, fetches, kern, quote, ht, yf, scan

solverVars == << call, fr >>
engineVars == << req, prov, epc, es, chain, idx, best, log, outcome >>
\* the state of the components beside the solver and the engine
opVars == << eo, fetches >>
sideVars == << kern, quote, ht, yf, scan >>
vars == << call, fr, req, prov, epc, es, chain, idx, best, log, outcome,
          eo, fetches, kern, quote, ht, yf, scan >>

\* (expiry - asof).days / 365.0
YearsBetween(asof, expiry) == Div(expiry - asof, 365, 8, DSat)

(***************************************************************************)
(* Inputs of the solver runs.                                              *)
(***************************************************************************)
\* the small iteration budget some calls pass as max_iter
SmallIter == 3

SolverSpots == {0, ONE9}
SolverStrikes == {0, 900000000, ONE9, 1100000000}
SolverTimes == {0, YearsBetween(0, 7), YearsBetween(0, 30)}
SolverRates == { << 0, 0 >>, << 5000000, 2000000 >> }
\* (max_iter, tol): the defaults, a tolerance of 1e-9 and a small budget
SolverParams == { << max_iter_default, tol_default >>, << max_iter_default, 1 >>,
                  << SmallIter, tol_default >> }
\* volatilities of the round trips: 1e-5, 0.2, 4.9
SigmaStars == {1000, 20000000, 490000000}

\* how a target price is chosen: given outright, at an offset from one of the
\* no-arbitrage bounds, or as the put price at a volatility
AbsTargets == { [kind |-> "abs", v |-> x] : x \in {-1000000, 0, 20000000, 150000000} }
DerivedTargets ==
  { [kind |-> "lower", v |-> d] : d \in {-2, -1, 0} }
    \cup { [kind |-> "upper", v |-> d] : d \in {0, 1, 2} }
    \cup { [kind |-> "price", v |-> x] : x \in SigmaStars }

TargetOf(inp, src) ==
  CASE src.kind = "abs"   -> src.v
    [] src.kind = "lower" -> NoArbLower("put", inp) + src.v
    [] src.kind = "upper" -> NoArbUpper("put", inp) + src.v
    [] src.kind = "price" -> bs_put_price(inp, src.v)

SolverInputs ==
  { BsInputs(x, k, t, rq[1], rq[2]) :
      x \in SolverSpots, k \in SolverStrikes, t \in SolverTimes, rq \in SolverRates }

\* a derived target needs inputs the kernel accepts
TargetSources(inp) ==
  IF inp.s > 0 /\ inp.k > 0 /\ inp.t > 0 THEN AbsTargets \cup DerivedTargets
  ELSE AbsTargets

SolverCalls ==
  UNION { { [inp |-> inp, target_price |-> TargetOf(inp, src), src |-> src,
             lo |-> lo_default, hi |-> hi_default, max_iter |-> p[1], tol |-> p[2]] :
              src \in TargetSources(inp), p \in SolverParams } :
          inp \in SolverInputs }

NoCall == [inp |-> BsInputs(0, 0, 0, 0, 0), target_price |-> 0,
           src |-> [kind |-> "abs", v |-> 0],
           lo |-> lo_default, hi |-> hi_default,
           max_iter |-> max_iter_default, tol |-> tol_default]

(***************************************************************************)
(* implied_vol_put_bisect, one step at a time.                             *)
(***************************************************************************)
SolveStart ==
  /\ fr.pc = "call"
  /\ fr' = BisectEntry("put", call.inp, call.target_price, call.lo, call.hi)
  /\ UNCHANGED << call, engineVars, opVars, sideVars >>

SolveIter ==
  /\ fr.pc = "loop"
  /\ fr.it < call.max_iter
  /\ fr' = BisectIter("put", call.inp, call.target_price, call.tol, fr)
  /\ UNCHANGED << call, engineVars, opVars, sideVars >>

SolveExhausted ==
  /\ fr.pc = "loop"
  /\ fr.it >= call.max_iter
  /\ fr' = BisectExhausted(fr)
  /\ UNCHANGED << call, engineVars, opVars, sideVars >>

(***************************************************************************)
(* The put kernel, one evaluation at a time: bs_put_price and bs_put_delta *)
(* on the same arguments.                                                  *)
(***************************************************************************)
\* spot and strike 0.9, 1.0 and 1.1; an expiry one day before asof, on asof, a
\* week and a month after it; zero and non-zero rates; volatilities -0.1, 0,
\* 0.2 and 1.0
KernelCalls ==
  { [inp |-> BsInputs(x, k, t, rq[1], rq[2]), sigma |-> sg] :
      x \in {900000000, ONE9, 1100000000},
      k \in {900000000, ONE9, 1100000000},
      t \in {YearsBetween(1, 0), 0, YearsBetween(0, 7), YearsBetween(0, 30)},
      rq \in { << 0, 0 >>, << 5000000, 2000000 >> },
      sg \in {-10000000, 0, 20000000, ONE8} }

KernelCall(c) == [pc |-> "call", inp |-> c.inp, sigma |-> c.sigma, price |-> 0, delta |-> 0]
NoKern == [pc |-> "idle", inp |-> BsInputs(0, 0, 0, 0, 0), sigma |-> 0,
           price |-> 0, delta |-> 0]

KernelEval ==
  /\ kern.pc = "call"
  /\ kern' = [kern EXCEPT !.pc = "done",
                          !.price = bs_put_price(kern.inp, kern.sigma),
                          !.delta = bs_put_delta(kern.inp, kern.sigma)]
  /\ UNCHANGED << solverVars, engineVars, opVars, quote, ht, yf, scan >>

(***************************************************************************)
(* The mid price of a quote, as Nasdaq.get_put_chain and                   *)
(* Nasdaq.get_put_premium derive it from the row's p_Bid, p_Ask and p_Last *)
(* and as YahooFinance.get_put_premium derives it from bid, ask and        *)
(* lastPrice.                                                              *)
(***************************************************************************)
\* if bid is not None and ask is not None: mid = (bid + ask) / 2.0
\* elif last is not None: mid = last
NasdaqMid(bid, ask, last) ==
  IF bid.ok /\ ask.ok THEN Some((bid.v + ask.v) \div 2)
  ELSE IF last.ok THEN last ELSE None

\* if bid_f is not None and ask_f is not None and bid_f > 0 and ask_f > 0: ...
YahooMid(bid, ask, last) ==
  IF bid.ok /\ ask.ok /\ bid.v > 0 /\ ask.v > 0 THEN Some((bid.v + ask.v) \div 2)
  ELSE IF last.ok THEN last ELSE None

\* bid, ask and last are absent, zero or positive
Quotes ==
  { [by |-> p, pc |-> "row", bid |-> b, ask |-> a, last |-> l, mid |-> None] :
      p \in {"Nasdaq.get_put_chain", "Nasdaq.get_put_premium",
             "YahooFinance.get_put_premium"},
      b \in {None, Some(0), Some(200000000), Some(400000000)},
      a \in {None, Some(0), Some(500000000)},
      l \in {None, Some(0), Some(300000000)} }
NoQuote == [by |-> "", pc |-> "idle", bid |-> None, ask |-> None, last |-> None,
            mid |-> None]

NasdaqRowMid ==
  /\ quote.pc = "row"
  /\ quote.by \in {"Nasdaq.get_put_chain", "Nasdaq.get_put_premium"}
  /\ quote' = [quote EXCEPT !.pc = "done",
                            !.mid = NasdaqMid(quote.bid, quote.ask, quote.last)]
  /\ UNCHANGED << solverVars, engineVars, opVars, kern, ht, yf, scan >>

YahooPremiumMid ==
  /\ quote.pc = "row"
  /\ quote.by = "YahooFinance.get_put_premium"
  /\ quote' = [quote EXCEPT !.pc = "done",
                            !.mid = YahooMid(quote.bid, quote.ask, quote.last)]
  /\ UNCHANGED << solverVars, engineVars, opVars, kern, ht, yf, scan >>

(***************************************************************************)
(* Nasdaq.get_put_chain.  A payload row is a header, whose expirygroup is  *)
(* the text of a date (BadGroup: a text that is no date), or a data row,   *)
(* whose expirygroup is absent and whose strike is a number or a text that *)
(* is none (None after _to_float).                                         *)
(***************************************************************************)
\* the longest payload
MaxPayload == 4
\* an expirygroup text that is not a date
BadGroup == 0

ErrNoRows == "No option-chain rows returned from Nasdaq"
ErrNoPuts == "No puts found via Nasdaq"
ErrFetch == "Unexpected Nasdaq payload"

PayloadRow(group, strike, bid, ask, last) ==
  [expirygroup |-> group, strike |-> strike, bid |-> bid, ask |-> ask, last |-> last]

\* headers of the requested and of another date, one that does not parse and
\* one that carries a strike; data rows at two strikes and one whose strike
\* does not parse
PayloadPool ==
  { PayloadRow(Some(17), None, None, None, None),
    PayloadRow(Some(24), None, None, None, None),
    PayloadRow(Some(BadGroup), None, None, None, None),
    PayloadRow(Some(17), Some(950000000), Some(10000000), Some(30000000), None),
    PayloadRow(None, Some(ONE9), Some(200000000), Some(400000000), Some(300000000)),
    PayloadRow(None, Some(900000000), None, None, Some(300000000)),
    PayloadRow(None, None, Some(200000000), Some(400000000), None) }

\* datetime.strptime(group.strip(), "%B %d, %Y").date(), None on ValueError
ParseGroup(text) == IF text = BadGroup THEN None ELSE Some(text)

\* faulty variant: the rows of every expiry group that parses are taken
GroupDiffersNever(current_group, expiry) == ~current_group.ok

\* if current_group != expiry
GroupDiffers(current_group, expiry) == current_group # Some(expiry)

\* lines 165-182: the record appended to puts
PutRecord(r) ==
  [strike |-> r.strike.v, bid |-> r.bid, ask |-> r.ask, last |-> r.last,
   mid |-> NasdaqMid(r.bid, r.ask, r.last)]

\* puts.sort(key=lambda x: float(x["strike"])): a stable sort
RECURSIVE InsertByStrike(_, _)
InsertByStrike(sorted, x) ==
  IF sorted = << >> THEN << x >>
  ELSE IF sorted[Len(sorted)].strike <= x.strike THEN Append(sorted, x)
  ELSE Append(InsertByStrike(SubSeq(sorted, 1, Len(sorted) - 1), x), sorted[Len(sorted)])

RECURSIVE SortByStrike(_)
SortByStrike(puts) ==
  IF puts = << >> THEN << >>
  ELSE InsertByStrike(SortByStrike(SubSeq(puts, 1, Len(puts) - 1)), puts[Len(puts)])

ScanCall(rows, expiry, fail) ==
  [pc |-> "start", rows |-> rows, expiry |-> expiry, fail |-> fail, i |-> 1,
   current_group |-> None, puts |-> << >>,
   result |-> [kind |-> "none", error |-> "", chain |-> << >>]]
NoScan == [ScanCall(<< >>, 0, FALSE) EXCEPT !.pc = "idle"]

ScanCalls ==
  { ScanCall(rows, 17, FALSE) :
      rows \in UNION { [1..n -> PayloadPool] : n \in 0..MaxPayload } }
    \cup { ScanCall(<< >>, 17, TRUE) }

ScanRaised(error) == [kind |-> "raise", error |-> error, chain |-> << >>]

\* lines 142-148: the fetch, the test for an empty payload
ScanBegin ==
  /\ scan.pc = "start"
  /\ scan' = IF scan.fail
             THEN [scan EXCEPT !.pc = "done", !.result = ScanRaised(ErrFetch)]
             ELSE IF scan.rows = << >>
             THEN [scan EXCEPT !.pc = "done", !.result = ScanRaised(ErrNoRows)]
             ELSE [scan EXCEPT !.pc = "loop"]
  /\ UNCHANGED << solverVars, engineVars, opVars, kern, quote, ht, yf >>

\* lines 149-182: one iteration of the loop over the payload rows
ScanRow ==
  /\ scan.pc = "loop"
  /\ scan.i <= Len(scan.rows)
  /\ scan' = IF scan.rows[scan.i].expirygroup.ok
             THEN [scan EXCEPT !.i = scan.i + 1,
                               !.current_group =
                                 ParseGroup(scan.rows[scan.i].expirygroup.v)]
             ELSE IF GroupDiffers(scan.current_group, scan.expiry)
                     \/ ~scan.rows[scan.i].strike.ok
             THEN [scan EXCEPT !.i = scan.i + 1]
             ELSE [scan EXCEPT !.i = scan.i + 1,
                               !.puts = Append(scan.puts, PutRecord(scan.rows[scan.i]))]
  /\ UNCHANGED << solverVars, engineVars, opVars, kern, quote, ht, yf >>

\* lines 184-188: after the loop
ScanEnd ==
  /\ scan.pc = "loop"
  /\ scan.i > Len(scan.rows)
  /\ scan' = IF scan.puts = << >>
             THEN [scan EXCEPT !.pc = "done", !.result = ScanRaised(ErrNoPuts)]
             ELSE [scan EXCEPT !.pc = "done",
                               !.result = [kind |-> "return", error |-> "",
                                           chain |-> SortByStrike(scan.puts)]]
  /\ UNCHANGED << solverVars, engineVars, opVars, kern, quote, ht, yf >>

(***************************************************************************)
(* HttpClient.get_json and HttpClient.get_text.  The server's answer to an *)
(* attempt is "ok" (a JSON body), "nonjson" (a body that is not JSON),     *)
(* "status" (an HTTP status >= 400) or "transport" (session.get raises).   *)
(* Times are in tenths of a second.                                        *)
(***************************************************************************)
\* the most attempts a client is configured with
MaxRetries == 3
backoff_s_default == 6

Answers == {"ok", "nonjson", "status", "transport"}

\* the error an attempt ends with, or "" if it returns: get_text does not
\* parse the body
AttemptError(method, answer) ==
  CASE answer = "transport" -> "ConnectionError"
    [] answer = "status" -> "RuntimeError: HTTP status"
    [] answer = "nonjson" /\ method = "get_json" -> "RuntimeError: Non-JSON response"
    [] OTHER -> ""

\* faulty variant: the last failed attempt sleeps as well
MayRetryAlways(attempt, max_retries) == attempt <= max_retries

\* if attempt < self._max_retries
MayRetry(attempt, max_retries) == attempt < max_retries

\* time.sleep(self._backoff_s * attempt)
SleepOf(backoff_s, attempt) == backoff_s * attempt

HttpCall(method, max_retries, backoff_s, answers) ==
  [method |-> method, max_retries |-> max_retries, backoff_s |-> backoff_s,
   answers |-> answers, attempt |-> 1, made |-> 0, last_err |-> None,
   sleeps |-> << >>, pc |-> "loop",
   result |-> [kind |-> "none", error |-> "", attempt |-> 0]]
NoHttp == [HttpCall("", 0, 0, << >>) EXCEPT !.pc = "idle"]

HttpCalls ==
  { HttpCall(mt, n, b, a) :
      mt \in {"get_json", "get_text"}, n \in 0..MaxRetries,
      b \in {backoff_s_default, 10}, a \in [1..MaxRetries -> Answers] }

\* the attempt's error e: lines 61-66 and 88-93
HttpFailed(e) ==
  IF MayRetry(ht.attempt, ht.max_retries)
  THEN ht' = [ht EXCEPT !.made = ht.made + 1, !.last_err = Some(ht.attempt),
                        !.sleeps = Append(ht.sleeps, SleepOf(ht.backoff_s, ht.attempt)),
                        !.attempt = ht.attempt + 1]
  ELSE ht' = [ht EXCEPT !.made = ht.made + 1, !.last_err = Some(ht.attempt),
                        !.pc = "done",
                        !.result = [kind |-> "raise", error |-> e,
                                    attempt |-> ht.attempt]]

\* lines 44-66 and 79-93: one iteration of the loop over the attempts
HttpAttempt ==
  /\ ht.pc = "loop"
  /\ ht.attempt <= ht.max_retries
  /\ IF AttemptError(ht.method, ht.answers[ht.attempt]) = ""
     THEN ht' = [ht EXCEPT !.made = ht.made + 1, !.pc = "done",
                           !.result = [kind |-> "return", error |-> "",
                                       attempt |-> ht.attempt]]
     ELSE HttpFailed(AttemptError(ht.method, ht.answers[ht.attempt]))
  /\ UNCHANGED << solverVars, engineVars, opVars, kern, quote, yf, scan >>

\* lines 68-69 and 95-96: the loop has ended without a return or a raise
HttpLoopEnd ==
  /\ ht.pc = "loop"
  /\ ht.attempt > ht.max_retries
  /\ ht' = [ht EXCEPT !.pc = "done",
                      !.result = IF ht.last_err.ok
                                 THEN [kind |-> "raise",
                                       error |-> AttemptError(ht.method,
                                                              ht.answers[ht.last_err.v]),
                                       attempt |-> ht.last_err.v]
                                 ELSE [kind |-> "raise", error |-> "AssertionError",
                                       attempt |-> 0]]
  /\ UNCHANGED << solverVars, engineVars, opVars, kern, quote, yf, scan >>

(***************************************************************************)
(* YahooFinance: the crumb cache.  A crumb request is a get_text of the    *)
(* quote page or of one of the two getcrumb addresses.                     *)
(***************************************************************************)
\* the most operations issued on one instance
MaxOps == 3
\* for attempt in range(1, 6)
CrumbAttempts == 5
\* YAHOO_CRUMB_URL, YAHOO_CRUMB_URL_ALT
CrumbUrls == 2

\* the tokens the server hands out
Tokens == {"crumbA", "crumbB"}

\* what the quote page answers: get_text raises, or the page has a usable
\* crumb in its CrumbStore, or it has none
PageAnswers ==
  {[kind |-> "error", token |-> ""], [kind |-> "none", token |-> ""]}
    \cup { [kind |-> "crumb", token |-> t] : t \in Tokens }

\* what getcrumb answers: a usable crumb, a payload that is empty or has a
\* "<", an error whose message names HTTP 429, or another error
CrumbAnswers ==
  {[kind |-> "payload", token |-> ""], [kind |-> "throttled", token |-> ""],
   [kind |-> "error", token |-> ""]}
    \cup { [kind |-> "crumb", token |-> t] : t \in Tokens }

\* faulty variant: the cache is never used
CrumbCachedNever(c) == FALSE

\* if self._crumb
CrumbCached(c) == c.ok

\* self._crumb = None
NewYahoo ==
  [crumb |-> None, pc |-> "idle", op |-> "", stage |-> 0, url |-> 0, attempt |-> 0,
   slept |-> 0, nops |-> 0, ensures |-> 0, acq |-> 0, cur |-> 0, entry |-> None,
   ret |-> "", first |-> None]
NoYahoo == [NewYahoo EXCEPT !.pc = "off"]

\* _ensure_crumb returns the token t, which it stores if it is new
CrumbReturned(y, t) ==
  [y EXCEPT !.crumb = Some(t), !.ret = t, !.pc = "options",
            !.first = IF y.first.ok THEN y.first ELSE Some(t)]

\* _ensure_crumb raises, and with it the operation
CrumbRaised(y) == [y EXCEPT !.ret = "raised", !.pc = "idle", !.op = ""]

\* an operation of the instance begins: get_close_on_date, whose requests
\* are chart requests and which ends here, or get_put_premium, which enters
\* _get_expiration_epoch
YahooOp ==
  /\ yf.pc = "idle"
  /\ yf.nops < MaxOps
  /\ \E op \in {"get_close_on_date", "get_put_premium"} :
       yf' = IF op = "get_close_on_date"
             THEN [yf EXCEPT !.nops = yf.nops + 1]
             ELSE [yf EXCEPT !.nops = yf.nops + 1, !.op = op, !.pc = "ensure",
                             !.stage = 1]
  /\ UNCHANGED << solverVars, engineVars, opVars, kern, quote, ht, scan >>

\* lines 55-78: _ensure_crumb up to the fallback
EnsureCrumb ==
  /\ yf.pc = "ensure"
  /\ IF CrumbCached(yf.crumb)
     THEN yf' = CrumbReturned([yf EXCEPT !.ensures = yf.ensures + 1, !.cur = 0,
                                        !.slept = 0, !.entry = yf.crumb],
                              yf.crumb.v)
     ELSE \E a \in PageAnswers :
            yf' = ( LET y == [yf EXCEPT !.ensures = yf.ensures + 1, !.cur = 1,
                                        !.slept = 0, !.acq = yf.acq + 1,
                                        !.entry = yf.crumb]
                    IN  CASE a.kind = "error" -> CrumbRaised(y)
                          [] a.kind = "crumb" -> CrumbReturned(y, a.token)
                          [] OTHER -> [y EXCEPT !.pc = "fallback", !.url = 1,
                                                !.attempt = 1] )
  /\ UNCHANGED << solverVars, engineVars, opVars, kern, quote, ht, scan >>

\* the inner loop is left: the next address, or line 101
NextCrumbUrl(y) ==
  IF y.url < CrumbUrls
  THEN [y EXCEPT !.url = y.url + 1, !.attempt = 1]
  ELSE CrumbRaised(y)

\* lines 82-99: one attempt of the fallback
GetCrumb ==
  /\ yf.pc = "fallback"
  /\ \E a \in CrumbAnswers :
       yf' = ( LET y == [yf EXCEPT !.cur = yf.cur + 1, !.acq = yf.acq + 1]
               IN  CASE a.kind = "crumb" -> CrumbReturned(y, a.token)
                     [] a.kind = "throttled" ->
                          IF y.attempt < CrumbAttempts
                          THEN [y EXCEPT !.slept = 15 * y.attempt,
                                         !.attempt = y.attempt + 1]
                          ELSE NextCrumbUrl([y EXCEPT !.slept = 15 * y.attempt])
                     [] OTHER -> NextCrumbUrl(y) )
  /\ UNCHANGED << solverVars, engineVars, opVars, kern, quote, ht, scan >>

\* lines 181 and 202: the options request made with the crumb; after the
\* first the operation calls _ensure_crumb again, after the second it ends
OptionsFetch ==
  /\ yf.pc = "options"
  /\ \E ok \in BOOLEAN :
       yf' = IF ok /\ yf.stage = 1
             THEN [yf EXCEPT !.pc = "ensure", !.stage = 2]
             ELSE [yf EXCEPT !.pc = "idle", !.op = ""]
  /\ UNCHANGED << solverVars, engineVars, opVars, kern, quote, ht, scan >>

(***************************************************************************)
(* Inputs of the engine runs.                                              *)
(***************************************************************************)
\* the longest chain the collaborator serves
MaxRows == 2

\* str(right).strip().lower()
StripLower(right) == IF right = " PUT " THEN "put" ELSE right

Rights == {" PUT ", "call", "straddle"}
AsofDays == {10}
ExpiryDays == {10, 17}
TargetDeltas == {-500000000, 200000000}
\* the spot argument: absent (the spot is fetched) or given
SpotArgs == {None, Some(ONE9)}

\* chain rows: strike, mid, bid, ask (mid, bid and ask may be absent); mid is
\* (bid + ask) / 2 when both are present
Row(strike, mid, bid, ask) == [strike |-> strike, mid |-> mid, bid |-> bid, ask |-> ask]
RowPool ==
  { Row(900000000, Some(100000000), Some(90000000), Some(110000000)),
    Row(ONE9, Some(11049159), Some(11000000), Some(11098318)),
    Row(1100000000, Some(100000000), Some(100000000), Some(100000000)),
    Row(1200000000, Some(200000000), None, None),
    Row(ONE9, None, None, None),
    Row(ONE9, Some(0), Some(0), Some(0)),
    Row(ONE9, Some(1500000000), Some(1400000000), Some(1600000000)) }

\* The collaborator is the one given to OptionEngine(nasdaq=...), so a chain is
\* any non-empty list of rows; Nasdaq.get_put_chain serves its rows sorted by
\* strike.
Chains == UNION { [1..n -> RowPool] : n \in 1..MaxRows }

\* puts.sort(key=lambda x: float(x["strike"]))
SortedByStrike(c) == \A i \in 1..(Len(c) - 1) : c[i].strike <= c[i + 1].strike

Request(right, asof, expiry, target_delta, spot) ==
  [right |-> right, asof |-> asof, expiry |-> expiry, target_delta |-> target_delta,
   spot |-> spot, r |-> 0, q |-> 0]

\* every right, expiry and target without a spot argument, and the put
\* requests with either spot argument
Requests ==
  { Request(rt, a, e, td, None) :
      rt \in Rights, a \in AsofDays, e \in ExpiryDays, td \in TargetDeltas }
    \cup { Request(" PUT ", a, e, -500000000, sp) :
             a \in AsofDays, e \in ExpiryDays, sp \in SpotArgs }

NoReq == [right |-> "put", asof |-> 0, expiry |-> 0, target_delta |-> 0,
          spot |-> None, r |-> 0, q |-> 0]
\* the collaborator's methods the engine calls
FetchSpot == "get_underlying_from_option_chain"
FetchChain(right) == IF right = "put" THEN "get_put_chain" ELSE "get_call_chain"
FetchExpiry == "pick_nearest_expiry"
FetchPremium == "get_call_premium"

\* the premium of one contract: NasdaqPutPremium and its call counterpart
Premium(mid, bid, ask) == [mid |-> mid, bid |-> bid, ask |-> ask, url |-> "nasdaq"]
NoPremium == Premium(None, None, None)

\* a collaborator: fail names the method that raises error ("none": no method
\* does), groups are the expiry groups of the payload in payload order
Provider(spot, c, fail, groups, premium) ==
  [spot |-> spot, chain |-> c, url |-> "nasdaq", fail |-> fail,
   error |-> "HTTP 503 for https://api.nasdaq.com/api/quote/x/option-chain",
   groups |-> groups, premium |-> premium]

NoProv == [spot |-> 0, chain |-> << >>, url |-> "", fail |-> "none", error |-> "",
           groups |-> << >>, premium |-> NoPremium]
NoCand == [asof |-> 0, expiry |-> 0, spot |-> 0, right |-> "", target_delta |-> 0,
           strike |-> 0, delta |-> 0, iv |-> 0, premium_mid |-> 0,
           premium_bid |-> None, premium_ask |-> None, source |-> ""]
NoBest == [ok |-> FALSE, diff |-> 0, cand |-> NoCand, row |-> 0]
NoOutcome == [kind |-> "none", error |-> "", cand |-> NoCand, row |-> 0]

ErrRight == "right must be 'put' or 'call'"
ErrExpiry == "expiry must be after asof"
ErrNoCandidate ==
  "Could not compute delta for any strike (missing mid prices or IV solve failed)"

Raise(error) == [kind |-> "raise", error |-> error, cand |-> NoCand, row |-> 0]
Return(b) == [kind |-> "return", error |-> "", cand |-> b.cand, row |-> b.row]

(***************************************************************************)
(* OptionEngine.find_strike_for_delta.                                     *)
(***************************************************************************)
\* if mid is None or mid <= 0: continue
MidUnusable(mid) == ~mid.ok \/ mid.v <= 0

\* faulty variant: the check of the solver's sentinel is missing
IvNeverUnusable(iv) == FALSE

\* if iv is None: continue
IvUnusable(iv) == ~iv.ok

\* faulty variants of the comparison: reversed, non-strict, without the
\* test for the first candidate, and without any test
ReplacesFarther(diff, b) == ~b.ok \/ diff > b.diff
ReplacesAlways(diff, b) == TRUE
ReplacesOnTie(diff, b) == ~b.ok \/ diff <= b.diff
ReplacesOnlyBest(diff, b) == b.ok /\ diff < b.diff

\* if best is None or diff < best[0]
Replaces(diff, b) == ~b.ok \/ diff < b.diff

DeltaOf(right, inp, iv) ==
  IF right = "put" THEN bs_put_delta(inp, iv) ELSE bs_call_delta(inp, iv)

\* what one iteration of the loop computed: a row is skipped at a continue
Skipped(mid, iv) == [mid |-> mid, skipped |-> TRUE, iv |-> iv, d |-> 0, diff |-> 0]
Computed(mid, iv, d, target_delta) ==
  [mid |-> mid, skipped |-> FALSE, iv |-> iv, d |-> d, diff |-> Abs(d - target_delta)]

\* lines 86-90
RowDelta(right, inp, mid, target_delta, iv) ==
  IF IvUnusable(iv) THEN Skipped(mid, iv)
  ELSE Computed(mid, iv, DeltaOf(right, inp, iv.v), target_delta)

\* lines 79-90
RowLocals(right, inp, mid, target_delta) ==
  IF MidUnusable(mid) THEN Skipped(mid, None)
  ELSE RowDelta(right, inp, mid, target_delta, ImpliedVol(right, inp, mid.v))

\* faulty variant: the record's bid and ask are both the mid price
CandidateMidOnly(row, loc) ==
  [asof |-> req.asof, expiry |-> req.expiry, spot |-> es,
   right |-> StripLower(req.right), target_delta |-> req.target_delta,
   strike |-> row.strike, delta |-> loc.d, iv |-> loc.iv.v,
   premium_mid |-> loc.mid.v, premium_bid |-> loc.mid, premium_ask |-> loc.mid,
   source |-> prov.url]

\* lines 92-106
Candidate(row, loc) ==
  [asof |-> req.asof, expiry |-> req.expiry, spot |-> es,
   right |-> StripLower(req.right), target_delta |-> req.target_delta,
   strike |-> row.strike, delta |-> loc.d, iv |-> loc.iv.v,
   premium_mid |-> loc.mid.v, premium_bid |-> row.bid, premium_ask |-> row.ask,
   source |-> prov.url]

\* lines 108-109: the best after row i, whose locals are loc, given the best
\* b before it
Better(b, row, loc, i) ==
  IF ~loc.skipped /\ Replaces(loc.diff, b)
  THEN [ok |-> TRUE, diff |-> loc.diff, cand |-> Candidate(row, loc), row |-> i]
  ELSE b

\* lines 108-109, after the locals loc of the iteration are known
Consider(row, loc) ==
  /\ log' = Append(log, loc)
  /\ best' = Better(best, row, loc, idx)

\* lines 76-109 as a whole, from row i on: the best over the chain c whose
\* rows have the locals locs
RECURSIVE SelectFrom(_, _, _, _)
SelectFrom(c, locs, i, b) ==
  IF i > Len(c) THEN b
  ELSE SelectFrom(c, locs, i + 1, Better(b, c[i], locs[i], i))

\* faulty variant: the spot is fetched whether or not it is given
SpotFetchesAlways(spot) == << FetchSpot >>

\* the calls of get_underlying_from_option_chain a spot argument leads to
SpotFetches(spot) == IF spot.ok THEN << >> ELSE << FetchSpot >>

\* lines 60-76: validation, the two fetches, the loop's setup; a fetch that
\* fails ends the call with the collaborator's error
FindBegin ==
  /\ epc = "start"
  /\ IF StripLower(req.right) \notin {"put", "call"}
     THEN /\ outcome' = Raise(ErrRight)
          /\ epc' = "done"
          /\ UNCHANGED << es, chain, fetches >>
     ELSE IF req.expiry <= req.asof
     THEN /\ outcome' = Raise(ErrExpiry)
          /\ epc' = "done"
          /\ UNCHANGED << es, chain, fetches >>
     ELSE IF ~req.spot.ok /\ prov.fail = FetchSpot
     THEN /\ outcome' = Raise(prov.error)
          /\ epc' = "done"
          /\ fetches' = Append(fetches, FetchSpot)
          /\ UNCHANGED << es, chain >>
     ELSE IF prov.fail = FetchChain(StripLower(req.right))
     THEN /\ outcome' = Raise(prov.error)
          /\ epc' = "done"
          /\ es' = IF req.spot.ok THEN req.spot.v ELSE prov.spot
          /\ fetches' = fetches \o SpotFetches(req.spot)
                                \o << FetchChain(StripLower(req.right)) >>
          /\ UNCHANGED chain
     ELSE /\ es' = IF req.spot.ok THEN req.spot.v ELSE prov.spot
          /\ chain' = prov.chain
          /\ epc' = "loop"
          /\ fetches' = fetches \o SpotFetches(req.spot)
                                \o << FetchChain(StripLower(req.right)) >>
          /\ UNCHANGED outcome
  /\ UNCHANGED << req, prov, idx, best, log, eo, solverVars, sideVars >>

\* lines 78-109: one iteration of the loop over the chain
FindRow ==
  /\ epc = "loop"
  /\ idx <= Len(chain)
  /\ Consider(chain[idx],
              RowLocals(StripLower(req.right),
                        BsInputs(es, chain[idx].strike,
                                 YearsBetween(req.asof, req.expiry), req.r, req.q),
                        chain[idx].mid, req.target_delta))
  /\ idx' = idx + 1
  /\ UNCHANGED << req, prov, epc, es, chain, outcome, opVars, solverVars, sideVars >>

\* lines 111-114: after the loop
FindEnd ==
  /\ epc = "loop"
  /\ idx > Len(chain)
  /\ outcome' = IF ~best.ok
                THEN Raise(ErrNoCandidate)
                ELSE Return(best)
  /\ epc' = "done"
  /\ UNCHANGED << req, prov, es, chain, idx, best, log, opVars, solverVars, sideVars >>

(***************************************************************************)
(* Nasdaq.get_available_expiries and Nasdaq.pick_nearest_expiry.  The      *)
(* expiry groups of the payload are dates (days), BadGroup where the text  *)
(* of a group does not parse.  A lookup gives Some(v) or Raised(error).    *)
(***************************************************************************)
ErrNoExpiryGroups == "No expiry groups found via Nasdaq"

Raised(error) == [ok |-> FALSE, v |-> 0, error |-> error]

\* sorted(S)
RECURSIVE SortedSeq(_)
SortedSeq(S) ==
  IF S = {} THEN << >>
  ELSE << CHOOSE x \in S : \A y \in S : x <= y >>
         \o SortedSeq(S \ { CHOOSE x \in S : \A y \in S : x <= y })

\* expiries = sorted(set(expiries)); if not expiries: raise
get_available_expiries(groups) ==
  IF { groups[i] : i \in 1..Len(groups) } \ {BadGroup} = {}
  THEN Raised(ErrNoExpiryGroups)
  ELSE Some(SortedSeq({ groups[i] : i \in 1..Len(groups) } \ {BadGroup}))

\* faulty variant: without the fallback, the earliest expiry is taken
PickEarliest(expiries, future) == expiries[1]

\* future[0], or expiries[-1] if future is empty
PickFrom(expiries, future) ==
  IF future = << >> THEN expiries[Len(expiries)] ELSE future[1]

\* faulty variant: an expiry on asof does not count as future
FutureOfStrict(expiries, asof) == SelectSeq(expiries, LAMBDA e : e > asof)

FutureOf(expiries, asof) == SelectSeq(expiries, LAMBDA e : e >= asof)

PickNearest(av, asof) ==
  IF ~av.ok THEN av ELSE Some(PickFrom(av.v, FutureOf(av.v, asof)))

pick_nearest_expiry(groups, asof) == PickNearest(get_available_expiries(groups), asof)

(***************************************************************************)
(* The engine's operations around find_strike_for_delta:                   *)
(* strike_and_premium_for_delta, strike_and_premium_for_delta_right and    *)
(* covered_call.  An operation that calls find_strike_for_delta hands its  *)
(* request to FindBegin, FindRow and FindEnd (eo.pc = "inner") and goes on *)
(* when that call is done.  Totals over the shares are in units of 10^-6.  *)
(***************************************************************************)
ErrSharesPositive == "shares must be positive"
ErrSharesMultiple == "shares must be a multiple of 100 (1 option contract = 100 shares)"
ErrNoPremium == "No usable call premium (mid/bid) returned from Nasdaq"

OpArgs(right, asof, expiry, target_delta, spot, strike, shares) ==
  [right |-> right, asof |-> asof, expiry |-> expiry, target_delta |-> target_delta,
   spot |-> spot, r |-> 0, q |-> 0, strike |-> strike, shares |-> shares]

\* the contract covered_call works on: a record of find_strike_for_delta or
\* the one of lines 207-221, whose delta and iv may be None
Chosen(strike, premium_mid, delta, iv, source) ==
  [strike |-> strike, premium_mid |-> premium_mid, delta |-> delta, iv |-> iv,
   source |-> source]

ChosenOf(cand) ==
  Chosen(cand.strike, cand.premium_mid, Some(cand.delta), Some(cand.iv), cand.source)

\* lines 202-221, after the solver's answer iv is known
StrikeChosen(inp, prem, iv, source) ==
  Chosen(inp.k, prem, IF iv.ok THEN Some(bs_call_delta(inp, iv.v)) ELSE None, iv, source)

\* x * float(shares)
Total(x, shares) == TDiv(x, 1000) * shares

\* faulty variant: the premium is added to the spot
BreakevenAbove(s, premium) == s + premium

\* breakeven = s - premium
Breakeven(s, premium) == s - premium

\* lines 233-234; the annualized return is in units of 10^-6
MaxReturnPct(per_share, s) == IF s > 0 THEN Some(Div(per_share, s, 9, 2 * ONE9)) ELSE None
Annualized(pct, t_years) ==
  IF pct.ok /\ t_years > 0 THEN Some(Div(pct.v, t_years, 5, 2 * ONE9)) ELSE None

\* lines 223-256
CoveredRecord(a, s, chosen) ==
  [asof |-> a.asof, expiry |-> a.expiry.v, spot |-> s, right |-> "call",
   shares |-> a.shares, strike |-> chosen.strike, target_delta |-> a.target_delta,
   delta |-> chosen.delta, iv |-> chosen.iv,
   premium_mid |-> chosen.premium_mid,
   premium_total |-> Total(chosen.premium_mid, a.shares),
   breakeven |-> Breakeven(s, chosen.premium_mid),
   max_profit_per_share |-> (chosen.strike - s) + chosen.premium_mid,
   max_profit_total |-> Total((chosen.strike - s) + chosen.premium_mid, a.shares),
   max_return_pct |-> MaxReturnPct((chosen.strike - s) + chosen.premium_mid, s),
   annualized_max_return_pct |->
     Annualized(MaxReturnPct((chosen.strike - s) + chosen.premium_mid, s),
                YearsBetween(a.asof, a.expiry.v)),
   cost_basis_total |-> Total(s - chosen.premium_mid, a.shares),
   source |-> chosen.source]

NoCovered == CoveredRecord(OpArgs("", 0, Some(0), 0, None, None, 0), 0,
                           Chosen(0, 0, None, None, ""))

\* what an operation returned or raised: cand is the record of a selection,
\* cc the one of covered_call
NoResult == [kind |-> "none", error |-> "", cand |-> NoCand, cc |-> NoCovered]
OpRaised(error) == [NoResult EXCEPT !.kind = "raise", !.error = error]
OpSelected(cand) == [NoResult EXCEPT !.kind = "return", !.cand = cand]
OpCovered(cc) == [NoResult EXCEPT !.kind = "return", !.cc = cc]

EngineOp(name, a) == [name |-> name, args |-> a, pc |-> "start", s |-> 0,
                      result |-> NoResult]
NoOp == [name |-> "", args |-> OpArgs("", 0, None, 0, None, None, 0), pc |-> "idle",
         s |-> 0, result |-> NoResult]

\* the operation ends with result, after the collaborator calls fs
OpEnds(result, fs) ==
  /\ eo' = [eo EXCEPT !.pc = "done", !.result = result]
  /\ fetches' = fetches \o fs
  /\ UNCHANGED << req, epc >>

\* the operation calls self.find_strike_for_delta, after the collaborator
\* calls fs
OpInvokes(right, expiry, spot, s, fs) ==
  /\ eo' = [eo EXCEPT !.pc = "inner", !.s = s]
  /\ fetches' = fetches \o fs
  /\ req' = Request(right, eo.args.asof, expiry, eo.args.target_delta, spot)
  /\ epc' = "start"

\* find_strike_for_delta called by the caller itself
FindCall ==
  /\ eo.pc = "start"
  /\ eo.name = "find_strike_for_delta"
  /\ OpInvokes(eo.args.right, eo.args.expiry.v, eo.args.spot, 0, << >>)
  /\ UNCHANGED << prov, es, chain, idx, best, log, outcome, solverVars, sideVars >>

\* right="put" (line 135) or right=right (line 160)
OpRight == IF eo.name = "strike_and_premium_for_delta" THEN "put" ELSE eo.args.right

\* lines 128 and 154, after pick_nearest_expiry answered pk
PickedExpiry(pk) ==
  IF ~pk.ok THEN OpEnds(OpRaised(pk.error), << FetchExpiry >>)
  ELSE OpInvokes(OpRight, pk.v, eo.args.spot, 0, << FetchExpiry >>)

\* lines 127-139 and 153-164, up to the call of find_strike_for_delta
StrikeAndPremiumBegin ==
  /\ eo.pc = "start"
  /\ eo.name \in {"strike_and_premium_for_delta", "strike_and_premium_for_delta_right"}
  /\ IF eo.args.expiry.ok
     THEN OpInvokes(OpRight, eo.args.expiry.v, eo.args.spot, 0, << >>)
     ELSE IF prov.fail = FetchExpiry
          THEN OpEnds(OpRaised(prov.error), << FetchExpiry >>)
          ELSE PickedExpiry(pick_nearest_expiry(prov.groups, eo.args.asof))
  /\ UNCHANGED << prov, es, chain, idx, best, log, outcome, solverVars, sideVars >>

\* prem = call.mid if call.mid is not None else call.bid
PremOf(p) == IF p.mid.ok THEN p.mid ELSE p.bid

\* lines 202-256 of the strike-specified mode
CoveredPriced(s, inp, prem, fs) ==
  OpEnds(OpCovered(CoveredRecord(eo.args, s,
                                 StrikeChosen(inp, prem, implied_vol_call_bisect(inp, prem),
                                              prov.premium.url))),
         fs)

\* lines 198-256: the strike-specified mode
CoveredStrike(s, fs) ==
  IF prov.fail = FetchPremium THEN OpEnds(OpRaised(prov.error), fs)
  ELSE IF ~PremOf(prov.premium).ok THEN OpEnds(OpRaised(ErrNoPremium), fs)
  ELSE CoveredPriced(s,
                     BsInputs(s, eo.args.strike.v,
                              YearsBetween(eo.args.asof, eo.args.expiry.v),
                              eo.args.r, eo.args.q),
                     PremOf(prov.premium).v, fs)

\* faulty variant: only the sign of the share count is checked
SharesInvalidSign(shares) == IF shares <= 0 THEN Raised(ErrSharesPositive) ELSE Some(shares)

\* lines 179-182
SharesInvalid(shares) ==
  IF shares <= 0 THEN Raised(ErrSharesPositive)
  ELSE IF shares % 100 # 0 THEN Raised(ErrSharesMultiple)
  ELSE Some(shares)

\* lines 179-221: covered_call up to the call of find_strike_for_delta, or
\* to its end in the strike-specified mode
CoveredCallBegin ==
  /\ eo.pc = "start"
  /\ eo.name = "covered_call"
  /\ IF ~SharesInvalid(eo.args.shares).ok
     THEN OpEnds(OpRaised(SharesInvalid(eo.args.shares).error), << >>)
     ELSE IF ~eo.args.spot.ok /\ prov.fail = FetchSpot
     THEN OpEnds(OpRaised(prov.error), << FetchSpot >>)
     ELSE IF ~eo.args.strike.ok
     THEN OpInvokes("call", eo.args.expiry.v,
                    Some(IF eo.args.spot.ok THEN eo.args.spot.v ELSE prov.spot),
                    IF eo.args.spot.ok THEN eo.args.spot.v ELSE prov.spot,
                    SpotFetches(eo.args.spot))
     ELSE CoveredStrike(IF eo.args.spot.ok THEN eo.args.spot.v ELSE prov.spot,
                        SpotFetches(eo.args.spot) \o << FetchPremium >>)
  /\ UNCHANGED << prov, es, chain, idx, best, log, outcome, solverVars, sideVars >>

\* lines 223-256 of the delta-targeted mode: find_strike_for_delta is done
CoveredCallEnd ==
  /\ eo.pc = "inner"
  /\ eo.name = "covered_call"
  /\ epc = "done"
  /\ eo' = [eo EXCEPT !.pc = "done",
                      !.result = IF outcome.kind = "raise" THEN OpRaised(outcome.error)
                                 ELSE OpCovered(CoveredRecord(eo.args, eo.s,
                                                              ChosenOf(outcome.cand)))]
  /\ UNCHANGED << engineVars, fetches, solverVars, sideVars >>

\* the return of lines 130 and 155, and of a direct call
SelectionReturn ==
  /\ eo.pc = "inner"
  /\ eo.name # "covered_call"
  /\ epc = "done"
  /\ eo' = [eo EXCEPT !.pc = "done",
                      !.result = IF outcome.kind = "raise" THEN OpRaised(outcome.error)
                                 ELSE OpSelected(outcome.cand)]
  /\ UNCHANGED << engineVars, fetches, solverVars, sideVars >>

(***************************************************************************)
(* Inputs of the engine operations.                                        *)
(***************************************************************************)
\* the expiry argument may be absent where it is optional; covered_call is
\* called without a strike and with the strike 1.05, with one contract and
\* with share counts that fail the validation or are several contracts
EngineOps ==
  { EngineOp("find_strike_for_delta", OpArgs(rt, a, Some(e), -500000000, sp, None, 100)) :
      rt \in Rights, a \in AsofDays, e \in ExpiryDays, sp \in SpotArgs }
    \cup { EngineOp("strike_and_premium_for_delta",
                    OpArgs("put", a, e, -500000000, sp, None, 100)) :
             a \in AsofDays, e \in {None} \cup { Some(x) : x \in ExpiryDays },
             sp \in SpotArgs }
    \cup { EngineOp("strike_and_premium_for_delta_right",
                    OpArgs(rt, a, e, 200000000, None, None, 100)) :
             rt \in Rights, a \in AsofDays,
             e \in {None} \cup { Some(x) : x \in ExpiryDays } }
    \cup { EngineOp("covered_call", OpArgs("call", a, Some(e), 200000000, sp, k, 100)) :
             a \in AsofDays, e \in ExpiryDays, sp \in SpotArgs,
             k \in {None, Some(1050000000)} }
    \cup { EngineOp("covered_call", OpArgs("call", 10, Some(17), 200000000, None, k, n)) :
             k \in {None, Some(1050000000)}, n \in {-100, 0, 50, 150, 200, 300} }

\* a working collaborator: a chain of an at-the-money row and the contract
\* K = 1.05 at a mid of 0.02, two expiry groups after asof, and the premium
\* of that contract
OpProvider ==
  Provider(ONE9,
           << Row(ONE9, Some(11049159), Some(11000000), Some(11098318)),
              Row(1050000000, Some(20000000), Some(19000000), Some(21000000)) >>,
           "none", << 17, 24 >>,
           Premium(Some(20000000), Some(19000000), Some(21000000)))

\* the working collaborator and the ones that differ from it in one respect:
\* a chain without a mid; one method that fails; expiry groups that are
\* absent, unparseable, unsorted with a duplicate, all before asof, on asof,
\* or mixed; a premium without a mid, without mid and bid, or above the spot
OpProviders ==
  { OpProvider, [OpProvider EXCEPT !.chain = << Row(ONE9, None, None, None) >>] }
    \cup { [OpProvider EXCEPT !.fail = f] :
             f \in {FetchSpot, FetchChain("put"), FetchChain("call"), FetchExpiry,
                    FetchPremium} }
    \cup { [OpProvider EXCEPT !.groups = g] :
             g \in { << >>, << BadGroup >>, << 24, 17, 17 >>, << 3, 5 >>, << 10, 17 >>,
                     << 5, BadGroup, 24 >> } }
    \cup { [OpProvider EXCEPT !.premium = p] :
             p \in { Premium(None, Some(19000000), None), NoPremium,
                     Premium(Some(1500000000), Some(1400000000), Some(1600000000)) } }

(***************************************************************************)
(* Specifications.  Spec: every call of find_strike_for_delta on every     *)
(* chain of at most MaxRows rows.  SolverSpec: every call of               *)
(* implied_vol_put_bisect on the solver inputs.  KernelSpec: every         *)
(* evaluation of the put kernel on the kernel inputs.  OpSpec: the engine's*)
(* operations on collaborators that work or fail in one of their calls.    *)
(* QuoteSpec: the mid price of every quote of the three providers' methods.*)
(* HttpSpec: every call of get_json and get_text against every sequence of *)
(* answers.  YahooSpec: up to MaxOps operations on one YahooFinance        *)
(* instance against every answer of the server.  ScanSpec: every call of   *)
(* Nasdaq.get_put_chain on every payload of at most MaxPayload rows.       *)
(***************************************************************************)
EngineIdle ==
  /\ req = NoReq
  /\ prov = NoProv
  /\ epc = "idle"
  /\ es = 0
  /\ chain = << >>
  /\ idx = 1
  /\ best = NoBest
  /\ log = << >>
  /\ outcome = NoOutcome

SolverIdle ==
  /\ call = NoCall
  /\ fr = Frame("idle")

OpIdle ==
  /\ eo = NoOp
  /\ fetches = << >>

SideIdle ==
  /\ kern = NoKern
  /\ quote = NoQuote
  /\ ht = NoHttp
  /\ yf = NoYahoo
  /\ scan = NoScan

Init ==
  /\ SolverIdle
  /\ OpIdle
  /\ SideIdle
  /\ req \in Requests
  /\ prov \in { Provider(ONE9, c, "none", << >>, NoPremium) : c \in Chains }
  /\ epc = "start"
  /\ es = 0
  /\ chain = << >>
  /\ idx = 1
  /\ best = NoBest
  /\ log = << >>
  /\ outcome = NoOutcome

Next == FindBegin \/ FindRow \/ FindEnd

Spec == Init /\ [][Next]_vars

SolverInit ==
  /\ call \in SolverCalls
  /\ fr = Frame("call")
  /\ EngineIdle
  /\ OpIdle
  /\ SideIdle

SolverNext == SolveStart \/ SolveIter \/ SolveExhausted

SolverSpec == SolverInit /\ [][SolverNext]_vars

KernelInit ==
  /\ kern \in { KernelCall(c) : c \in KernelCalls }
  /\ quote = NoQuote
  /\ ht = NoHttp
  /\ yf = NoYahoo
  /\ scan = NoScan
  /\ SolverIdle
  /\ EngineIdle
  /\ OpIdle

KernelNext == KernelEval

KernelSpec == KernelInit /\ [][KernelNext]_vars

OpInit ==
  /\ eo \in EngineOps
  /\ prov \in OpProviders
  /\ fetches = << >>
  /\ req = NoReq
  /\ epc = "idle"
  /\ es = 0
  /\ chain = << >>
  /\ idx = 1
  /\ best = NoBest
  /\ log = << >>
  /\ outcome = NoOutcome
  /\ SolverIdle
  /\ SideIdle

OpNext ==
  \/ FindCall
  \/ StrikeAndPremiumBegin
  \/ CoveredCallBegin
  \/ FindBegin
  \/ FindRow
  \/ FindEnd
  \/ SelectionReturn
  \/ CoveredCallEnd

OpSpec == OpInit /\ [][OpNext]_vars

QuoteInit ==
  /\ quote \in Quotes
  /\ kern = NoKern
  /\ ht = NoHttp
  /\ yf = NoYahoo
  /\ scan = NoScan
  /\ SolverIdle
  /\ EngineIdle
  /\ OpIdle

QuoteNext == NasdaqRowMid \/ YahooPremiumMid

QuoteSpec == QuoteInit /\ [][QuoteNext]_vars

HttpInit ==
  /\ ht \in HttpCalls
  /\ kern = NoKern
  /\ quote = NoQuote
  /\ yf = NoYahoo
  /\ scan = NoScan
  /\ SolverIdle
  /\ EngineIdle
  /\ OpIdle

HttpNext == HttpAttempt \/ HttpLoopEnd

HttpSpec == HttpInit /\ [][HttpNext]_vars

YahooInit ==
  /\ yf = NewYahoo
  /\ scan = NoScan
  /\ kern = NoKern
  /\ quote = NoQuote
  /\ ht = NoHttp
  /\ SolverIdle
  /\ EngineIdle
  /\ OpIdle

YahooNext == YahooOp \/ EnsureCrumb \/ GetCrumb \/ OptionsFetch

YahooSpec == YahooInit /\ [][YahooNext]_vars

ScanInit ==
  /\ scan \in ScanCalls
  /\ kern = NoKern
  /\ quote = NoQuote
  /\ ht = NoHttp
  /\ yf = NoYahoo
  /\ SolverIdle
  /\ EngineIdle
  /\ OpIdle

ScanNext == ScanBegin \/ ScanRow \/ ScanEnd

ScanSpec == ScanInit /\ [][ScanNext]_vars


(***************************************************************************)
(* Properties of find_strike_for_delta, checked under Spec.                *)
(***************************************************************************)
\* the request passes the validation of lines 60-64
RequestValid == StripLower(req.right) \in {"put", "call"} /\ req.expiry > req.asof

\* row i was visited, has mid > 0 and the solver returned a value for it
RowUsable(i) == log[i].mid.ok /\ log[i].mid.v > 0 /\ log[i].iv.ok

\* |delta - target_delta| of row i and of the returned record
RowDiff(i) == Abs(log[i].d - req.target_delta)
ResultDiff == Abs(outcome.cand.delta - req.target_delta)

\* C1: the returned record is a row of the chain whose |delta - target_delta|
\* is at most that of every row with mid > 0 and a solved volatility.
C1_ClosestDelta ==
  outcome.kind = "return" =>
    /\ outcome.row \in 1..Len(chain)
    /\ Len(log) = Len(chain)
    /\ outcome.cand.strike = chain[outcome.row].strike
    /\ outcome.cand.delta = log[outcome.row].d
    /\ \A i \in 1..Len(log) : RowUsable(i) => ResultDiff <= RowDiff(i)

\* on a put chain sorted by strike, a later row, strictly closer than an
\* earlier usable one, is returned
C1_Witness ==
  /\ outcome.kind = "return"
  /\ outcome.cand.right = "put" /\ SortedByStrike(chain)
  /\ \E i \in 1..Len(log) :
       RowUsable(i) /\ i < outcome.row /\ ResultDiff < RowDiff(i)

\* C2: of the usable rows at exactly the returned distance the first in chain
\* order is the result, and best is only ever replaced by a strictly smaller
\* distance.
C2_FirstOfEqualWins ==
  /\ [](outcome.kind = "return" =>
          \A i \in 1..Len(log) :
            RowUsable(i) /\ RowDiff(i) = ResultDiff => outcome.row <= i)
  /\ [][best.ok /\ best' # best => best'.diff < best.diff]_vars

\* on a put chain sorted by strike, two different rows tie at the smallest
\* distance and the earlier is returned
C2_Witness ==
  /\ outcome.kind = "return"
  /\ outcome.cand.right = "put" /\ SortedByStrike(chain)
  /\ \E i, j \in 1..Len(log) :
       /\ i < j /\ chain[i] # chain[j]
       /\ RowUsable(i) /\ RowUsable(j)
       /\ RowDiff(i) = ResultDiff /\ RowDiff(j) = ResultDiff
       /\ outcome.row = i

\* C3: once a valid request is done, it has raised the 'no candidate' error
\* if no row has mid > 0 and a solved volatility, and has returned the record
\* of such a row otherwise.
C3_NoCandidateIffNoUsableRow ==
  (epc = "done" /\ RequestValid) =>
    /\ Len(log) = Len(chain)
    /\ IF \E i \in 1..Len(chain) :
            chain[i].mid.ok /\ chain[i].mid.v > 0 /\ log[i].iv.ok
       THEN /\ outcome.kind = "return"
            /\ outcome.row \in 1..Len(chain)
            /\ chain[outcome.row].mid.ok /\ chain[outcome.row].mid.v > 0
            /\ log[outcome.row].iv.ok
            /\ outcome.cand.strike = chain[outcome.row].strike
       ELSE outcome = Raise(ErrNoCandidate)

\* the error is raised on a chain with a row without a positive mid and a row
\* whose positive mid the solver rejects
C3_Witness ==
  /\ outcome = Raise(ErrNoCandidate)
  /\ StripLower(req.right) = "put" /\ SortedByStrike(chain)
  /\ \E i \in 1..Len(chain) : ~(chain[i].mid.ok /\ chain[i].mid.v > 0)
  /\ \E j \in 1..Len(chain) : chain[j].mid.ok /\ chain[j].mid.v > 0 /\ ~log[j].iv.ok

\* C4 as stated: every accepted row has mid > 0 and an implied volatility
\* strictly inside (1e-6, 5.0) (here on the put chains sorted by strike).
C4_OpenInterval ==
  (best.ok /\ best.cand.right = "put" /\ SortedByStrike(chain)) =>
    /\ best.cand.premium_mid > 0
    /\ lo_default < best.cand.iv /\ best.cand.iv < hi_default

\* C4, amended: every accepted row has mid > 0 and an implied volatility in
\* the closed interval [1e-6, 5.0], and a row without a positive mid or
\* without a volatility in that interval leaves best unchanged.
C4_ClosedInterval ==
  /\ [](best.ok =>
          /\ best.cand.premium_mid > 0
          /\ lo_default <= best.cand.iv /\ best.cand.iv <= hi_default
          /\ best.row \in 1..Len(log)
          /\ ~log[best.row].skipped)
  /\ [][Len(log') > Len(log) =>
          (~( /\ log'[Len(log')].mid.ok /\ log'[Len(log')].mid.v > 0
              /\ log'[Len(log')].iv.ok
              /\ lo_default <= log'[Len(log')].iv.v
              /\ log'[Len(log')].iv.v <= hi_default )
           => best' = best)]_vars

\* on a put chain sorted by strike, a row whose volatility is exactly the
\* endpoint 1e-6 is accepted after a row was skipped
C4_Witness ==
  /\ best.ok
  /\ best.cand.right = "put" /\ SortedByStrike(chain)
  /\ best.cand.iv = lo_default
  /\ \E i \in 1..Len(log) : log[i].skipped

\* the chain in the order p, and the locals of its rows: those of a row do not
\* depend on its position, so row i of the reordered chain has the locals
\* log[p[i]]
Reordered(c, p) == [i \in 1..Len(c) |-> c[p[i]]]

\* no two rows with mid > 0 and a solved volatility are at the same distance
\* from the target delta
NoEqualDistances ==
  \A i, j \in 1..Len(log) :
    (i # j /\ RowUsable(i) /\ RowUsable(j)) => RowDiff(i) # RowDiff(j)

\* C19: once the call is done on a chain without two usable rows at the same
\* distance, the call on any reordering of the chain selects the same row:
\* it fails if this one failed, and otherwise returns the same record, taken
\* from the position the row was moved to.
C19_OrderIndependent ==
  (epc = "done" /\ RequestValid /\ NoEqualDistances) =>
    \A p \in Permutations(1..Len(chain)) :
      /\ SelectFrom(Reordered(chain, p), Reordered(log, p), 1, NoBest).ok = best.ok
      /\ SelectFrom(Reordered(chain, p), Reordered(log, p), 1, NoBest).cand = best.cand
      /\ best.ok =>
           p[SelectFrom(Reordered(chain, p), Reordered(log, p), 1, NoBest).row] = best.row

\* on a put chain sorted by strike, the second of two usable rows at different
\* distances is returned: it is the first row of the reversed chain
C19_Witness ==
  /\ outcome.kind = "return"
  /\ outcome.cand.right = "put" /\ SortedByStrike(chain)
  /\ Len(chain) = 2 /\ chain[1] # chain[2]
  /\ RowUsable(1) /\ RowUsable(2) /\ RowDiff(1) # RowDiff(2)
  /\ outcome.row = 2


\* the Black-Scholes inputs of chain row i
RowInputs(i) ==
  BsInputs(es, chain[i].strike, YearsBetween(req.asof, req.expiry), req.r, req.q)

\* row i has a positive mid price, and the record's volatility is the
\* solver's for the row's strike and mid price, its delta the kernel's at
\* that volatility
SolvedFrom(i, iv) ==
  /\ chain[i].mid.ok /\ chain[i].mid.v > 0
  /\ iv.ok
  /\ outcome.cand.premium_mid = chain[i].mid.v
  /\ outcome.cand.iv = iv.v
  /\ outcome.cand.delta = DeltaOf(StripLower(req.right), RowInputs(i), iv.v)

\* C24: the returned record is taken from one row of the fetched chain: its
\* strike, premium_mid, premium_bid and premium_ask are that row's strike,
\* mid, bid and ask, premium_mid > 0, iv is the solver's value for the row's
\* strike and mid and delta the kernel's delta at that iv; the chain is the
\* one the collaborator served and is never modified.
C24_RecordFromOneRow ==
  /\ [](outcome.kind = "return" =>
          /\ outcome.row \in 1..Len(chain)
          /\ chain = prov.chain
          /\ outcome.cand.strike = chain[outcome.row].strike
          /\ outcome.cand.premium_bid = chain[outcome.row].bid
          /\ outcome.cand.premium_ask = chain[outcome.row].ask
          /\ outcome.cand.premium_mid > 0
          /\ SolvedFrom(outcome.row,
                        ImpliedVol(StripLower(req.right), RowInputs(outcome.row),
                                   chain[outcome.row].mid.v)))
  /\ [][(epc # "start") => (chain' = chain /\ prov' = prov)]_vars

\* the second of two different rows is returned, and its bid, mid and ask
\* differ
C24_Witness ==
  /\ outcome.kind = "return"
  /\ Len(chain) = 2 /\ outcome.row = 2
  /\ chain[1].strike # chain[2].strike /\ chain[1].mid # chain[2].mid
  /\ outcome.cand.premium_bid.ok /\ outcome.cand.premium_ask.ok
  /\ outcome.cand.premium_bid.v < outcome.cand.premium_mid
  /\ outcome.cand.premium_mid < outcome.cand.premium_ask.v

(***************************************************************************)
(* Properties of implied_vol_put_bisect, checked under SolverSpec.         *)
(***************************************************************************)
\* the call's arguments pass the guard of line 63
CallValid ==
  call.target_price > 0 /\ call.inp.s > 0 /\ call.inp.k > 0 /\ call.inp.t > 0

\* the no-arbitrage band of a European put for the call's inputs
BandUpper == Mul9(call.inp.k, Exp(-Mul8(call.inp.r, call.inp.t)))
BandLower ==
  Max(Mul9(call.inp.k, Exp(-Mul8(call.inp.r, call.inp.t)))
        - Mul9(call.inp.s, Exp(-Mul8(call.inp.q, call.inp.t))), 0)

\* C5: a call with target_price <= 0, spot <= 0, strike <= 0 or T <= 0 returns
\* None at once, without evaluating the price function.
C5_InvalidInputsGiveNone ==
  (fr.pc # "call" /\ ~CallValid) =>
    fr.pc = "done" /\ fr.ret = None /\ fr.evals = 0 /\ fr.it = 0

\* a call whose only invalid argument is T = 0 has returned
C5_Witness ==
  /\ fr.pc = "done"
  /\ call.inp.t <= 0
  /\ call.target_price > 0 /\ call.inp.s > 0 /\ call.inp.k > 0

\* C6: for valid arguments, a target outside
\* [max(K e^(-rT) - S e^(-qT), 0) - 1e-9, K e^(-rT) + 1e-9] makes the call
\* return None before any price evaluation, and a target inside it (bounds
\* included) passes the band test: the endpoint prices are evaluated.
C6_BandDecides ==
  (fr.pc # "call" /\ CallValid) =>
    IF BandLower - BandTol <= call.target_price
         /\ call.target_price <= BandUpper + BandTol
    THEN fr.evals >= 2 /\ fr.line # 70
    ELSE fr.pc = "done" /\ fr.ret = None /\ fr.evals = 0 /\ fr.line = 70

\* a target just above the upper bound's slack has been rejected
C6_Witness ==
  /\ fr.pc = "done"
  /\ CallValid
  /\ call.target_price = BandUpper + BandTol + 1
  /\ fr.ret = None

NearEndpoint == 10^6

\* C8: for S > 0, K > 0 and T > 0, a (positive) target equal to the lower
\* bound returns a volatility at or near 1e-6 and a target equal to the upper
\* bound one at or near 5.0, never None.
C8_BoundaryTargets ==
  (fr.pc = "done" /\ CallValid) =>
    /\ call.target_price = BandLower =>
         fr.ret.ok /\ fr.ret.v - call.lo <= NearEndpoint
    /\ call.target_price = BandUpper =>
         fr.ret.ok /\ call.hi - fr.ret.v <= NearEndpoint

\* C9: the loop runs at most max_iter iterations; an iteration returns its
\* midpoint exactly when |f(midpoint)| < tol or b - a < 1e-6 holds, and
\* otherwise goes on; with the budget exhausted the midpoint of the final
\* bracket is returned; a call that entered the loop never returns None.
C9_BoundedBisection ==
  /\ [](/\ fr.it <= call.max_iter
        /\ (fr.pc = "done" /\ fr.line \in {90, 96}) => fr.ret.ok)
  /\ [][fr.pc = "loop" =>
          IF fr.it < call.max_iter
          THEN /\ fr'.it = fr.it + 1
               /\ IF \/ Abs(bs_put_price(call.inp, (fr.a + fr.b) \div 2)
                              - call.target_price) < call.tol
                     \/ fr.b - fr.a < WidthTol
                  THEN fr'.pc = "done" /\ fr'.ret = Some((fr.a + fr.b) \div 2)
                  ELSE fr'.pc = "loop"
          ELSE /\ fr'.it = fr.it
               /\ fr'.pc = "done"
               /\ fr'.ret = Some((fr.a + fr.b) \div 2)]_vars

\* the budget was exhausted and the final midpoint returned
C9_Witness ==
  /\ fr.pc = "done"
  /\ fr.line = 96
  /\ fr.it = call.max_iter
  /\ fr.ret = Some((fr.a + fr.b) \div 2)

\* the round trip's tolerance: 1e-4
RoundTripTol == 10^4

\* C10: with the default keyword arguments, the volatility solved from
\* price = bs_put_price(inputs, sigma*) is within 1e-4 of sigma*, for sigma*
\* in (1e-6, 5.0) and valid inputs (S, K, T and the price positive).
C10_RoundTrip ==
  (/\ fr.pc = "done"
   /\ CallValid
   /\ call.src.kind = "price"
   /\ call.lo < call.src.v /\ call.src.v < call.hi
   /\ call.max_iter = max_iter_default /\ call.tol = tol_default) =>
    fr.ret.ok /\ Abs(fr.ret.v - call.src.v) <= RoundTripTol

\* f(sigma) = price(sigma) - target for the call in progress
Residual(sigma) == bs_put_price(call.inp, sigma) - call.target_price

LastIter ==
  CHOOSE i \in 1..30 :
    /\ (hi_default - lo_default) \div (2 ^ (i - 1)) < WidthTol
    /\ \A j \in 1..(i - 1) : (hi_default - lo_default) \div (2 ^ (j - 1)) >= WidthTol

\* C23: with the default lo, hi and max_iter, whatever the price tolerance, a
\* call that enters the loop returns from inside it (line 90) by iteration
\* 24: after i iterations the bracket is (hi - lo) / 2^i wide, which is below
\* 1e-6 after 23, so line 96 is not reached.
C23_ReturnsBy24 ==
  (call.lo = lo_default /\ call.hi = hi_default /\ call.max_iter = max_iter_default) =>
    /\ LastIter = 24
    /\ fr.it <= LastIter
    /\ (fr.pc = "loop") =>
         /\ fr.it < LastIter
         /\ fr.b - fr.a <= ((call.hi - call.lo) \div (2 ^ fr.it)) + 1
         /\ (fr.it = LastIter - 1) => (fr.b - fr.a < WidthTol)
    /\ (fr.pc = "done") => (fr.line # 96)

\* a call with the default keyword arguments has returned from inside the
\* loop
C23_Witness ==
  /\ fr.pc = "done" /\ fr.line = 90 /\ fr.it >= 15
  /\ call.lo = lo_default /\ call.hi = hi_default
  /\ call.max_iter = max_iter_default /\ call.tol = tol_default

\* with a price tolerance of 1e-9 it is the width test that ends the loop, at
\* iteration 24
C23_WitnessWidth ==
  /\ fr.pc = "done" /\ fr.line = 90 /\ fr.it = LastIter
  /\ call.max_iter = max_iter_default
  /\ Abs(Residual(fr.ret.v)) >= call.tol


(***************************************************************************)
(* Properties of the put kernel, checked under KernelSpec.                 *)
(***************************************************************************)
\* C11: with T <= 0 the put delta is exactly -1 if spot < strike and exactly 0
\* otherwise, and the put price is max(K - S, 0), whatever the volatility
\* (sigma <= 0 included).
C11_ExpiredKernel ==
  (kern.pc = "done" /\ kern.inp.t <= 0) =>
    /\ kern.delta = (IF kern.inp.s < kern.inp.k THEN -ONE9 ELSE 0)
    /\ kern.price = Max(kern.inp.k - kern.inp.s, 0)

\* an in-the-money put past its expiry, with non-zero rates, evaluated at a
\* volatility of zero
C11_Witness ==
  /\ kern.pc = "done"
  /\ kern.inp.t < 0 /\ kern.inp.q > 0 /\ kern.sigma <= 0
  /\ kern.inp.s < kern.inp.k
  /\ kern.delta = -ONE9 /\ kern.price = kern.inp.k - kern.inp.s


(***************************************************************************)
(* Properties of the engine's operations, checked under OpSpec.            *)
(***************************************************************************)
\* covered_call has returned the record cc
CoveredReturned == eo.name = "covered_call" /\ eo.result.kind = "return"

\* the option-chain contract covered_call selected
SelectedContract ==
  IF eo.args.strike.ok
  THEN [strike |-> eo.args.strike.v, premium_mid |-> PremOf(prov.premium).v]
  ELSE [strike |-> outcome.cand.strike, premium_mid |-> outcome.cand.premium_mid]

\* C12: the record of covered_call has the strike and the premium of the
\* selected contract, breakeven = spot - premium_mid, max_profit_per_share =
\* (strike - spot) + premium_mid, and as totals max_profit_per_share * shares,
\* premium_mid * shares and (spot - premium_mid) * shares; spot 1.00, strike
\* 1.05, premium 0.02 and 100 shares give 0.98, 7, 2 and 98.
C12_CoveredCallEconomics ==
  CoveredReturned =>
    /\ eo.result.cc.strike = SelectedContract.strike
    /\ eo.result.cc.premium_mid = SelectedContract.premium_mid
    /\ eo.result.cc.shares = eo.args.shares
    /\ eo.result.cc.breakeven = eo.result.cc.spot - eo.result.cc.premium_mid
    /\ eo.result.cc.max_profit_per_share =
         eo.result.cc.strike - eo.result.cc.spot + eo.result.cc.premium_mid
    /\ eo.result.cc.max_profit_total =
         TDiv(eo.result.cc.max_profit_per_share, 1000) * eo.result.cc.shares
    /\ eo.result.cc.premium_total =
         TDiv(eo.result.cc.premium_mid, 1000) * eo.result.cc.shares
    /\ eo.result.cc.cost_basis_total =
         TDiv(eo.result.cc.spot - eo.result.cc.premium_mid, 1000) * eo.result.cc.shares
    /\ ( /\ eo.result.cc.spot = ONE9 /\ eo.result.cc.strike = 1050000000
         /\ eo.result.cc.premium_mid = 20000000 /\ eo.result.cc.shares = 100 )
       => /\ eo.result.cc.breakeven = 980000000
          /\ eo.result.cc.max_profit_total = 7000000
          /\ eo.result.cc.premium_total = 2000000
          /\ eo.result.cc.cost_basis_total = 98000000

\* the delta-targeted mode selects the contract of the example from the chain
C12_Witness ==
  /\ CoveredReturned
  /\ ~eo.args.strike.ok
  /\ eo.result.cc.spot = ONE9 /\ eo.result.cc.strike = 1050000000
  /\ eo.result.cc.premium_mid = 20000000 /\ eo.result.cc.shares = 100
  /\ eo.result.cc.breakeven = 980000000
  /\ eo.result.cc.max_profit_total = 7000000

\* the share count is not a positive multiple of 100
SharesRejected == eo.args.shares <= 0 \/ eo.args.shares % 100 # 0

\* C13: covered_call with a share count that is not a positive multiple of
\* 100 ends with the error of the share validation and issues no
\* collaborator call, neither itself nor through find_strike_for_delta; with
\* a positive multiple of 100 it does not end with that error.
C13_SharesValidatedFirst ==
  (eo.name = "covered_call" /\ eo.pc # "start") =>
    IF SharesRejected
    THEN /\ eo.pc = "done"
         /\ eo.result = OpRaised(IF eo.args.shares <= 0 THEN ErrSharesPositive
                                 ELSE ErrSharesMultiple)
         /\ fetches = << >>
         /\ epc = "idle"
    ELSE eo.result.error \notin {ErrSharesPositive, ErrSharesMultiple}

\* 150 shares are rejected without a fetch, although the spot and the premium
\* would have to be fetched
C13_Witness ==
  /\ eo.name = "covered_call" /\ eo.pc = "done"
  /\ eo.args.shares = 150 /\ ~eo.args.spot.ok /\ eo.args.strike.ok
  /\ eo.result = OpRaised(ErrSharesMultiple)
  /\ fetches = << >>

\* the request names an expiry that is not after asof, or a right other than
\* put and call
OpRequestInvalid ==
  \/ eo.args.expiry.ok /\ eo.args.expiry.v <= eo.args.asof
  \/ /\ eo.name \in {"find_strike_for_delta", "strike_and_premium_for_delta_right"}
     /\ StripLower(eo.args.right) \notin {"put", "call"}

\* C14 as stated, for the requests that name their expiry: an operation with
\* an invalid request issues no collaborator call, and ends with the error
\* of the validation and never with a record.
C14_InvalidRequestRejectedFirst ==
  (eo.pc \in {"inner", "done"} /\ eo.args.expiry.ok /\ OpRequestInvalid
     /\ ~SharesRejected) =>
    /\ fetches = << >>
    /\ eo.pc = "done" => eo.result \in {OpRaised(ErrRight), OpRaised(ErrExpiry)}

\* C15 as stated, for the valid requests: a returned record has a delta and
\* an implied volatility.
C15_NoPartialResults ==
  (eo.result.kind = "return" /\ ~OpRequestInvalid) =>
    IF eo.name = "covered_call"
    THEN eo.result.cc.delta.ok /\ eo.result.cc.iv.ok
    ELSE /\ outcome.row \in 1..Len(log)
         /\ log[outcome.row].iv.ok
         /\ eo.result.cand.iv = log[outcome.row].iv.v
         /\ eo.result.cand.delta = log[outcome.row].d

\* the collaborator call that failed: the one the provider fails, or
\* pick_nearest_expiry without any expiry group
FailedFetch ==
  IF prov.fail # "none" THEN prov.fail
  ELSE IF ~get_available_expiries(prov.groups).ok THEN FetchExpiry ELSE "none"
FailedError == IF prov.fail # "none" THEN prov.error ELSE ErrNoExpiryGroups

\* C16: no collaborator call is issued twice within one operation; once a call
\* has failed it is the last one issued, no chain row is processed, and the
\* operation ends with the collaborator's error.
C16_CollaboratorFailurePropagates ==
  /\ [](\A i, j \in 1..Len(fetches) : fetches[i] = fetches[j] => i = j)
  /\ []((\E i \in 1..Len(fetches) : fetches[i] = FailedFetch) =>
          /\ fetches[Len(fetches)] = FailedFetch
          /\ log = << >>
          /\ epc = "done" => outcome = Raise(FailedError)
          /\ eo.pc = "done" => eo.result = OpRaised(FailedError))
  /\ [][(\E i \in 1..Len(fetches) : fetches[i] = FailedFetch) => fetches' = fetches]_vars

\* the chain fetch fails after the spot was fetched, and the operation has
\* ended with the collaborator's error
C16_Witness ==
  /\ eo.pc = "done"
  /\ prov.fail = FetchChain("put")
  /\ fetches = << FetchSpot, FetchChain("put") >>
  /\ eo.result = OpRaised(prov.error)

\* the parsed expiry groups of the payload
AvailableExpiries == { prov.groups[i] : i \in 1..Len(prov.groups) } \ {BadGroup}

\* an operation without an expiry argument has called pick_nearest_expiry,
\* and the call did not fail in its fetch
PickedNearest ==
  /\ eo.name \in {"strike_and_premium_for_delta", "strike_and_premium_for_delta_right"}
  /\ ~eo.args.expiry.ok
  /\ eo.pc \in {"inner", "done"}
  /\ prov.fail # FetchExpiry

\* C17: pick_nearest_expiry fails when there is no expiry, and otherwise
\* gives an available expiry: the earliest one on or after asof, or the
\* latest one if all are before asof.
C17_NearestExpiry ==
  PickedNearest =>
    IF AvailableExpiries = {}
    THEN eo.result = OpRaised(ErrNoExpiryGroups) /\ epc = "idle"
    ELSE /\ req.expiry \in AvailableExpiries
         /\ IF \E e \in AvailableExpiries : e >= eo.args.asof
            THEN /\ req.expiry >= eo.args.asof
                 /\ \A e \in AvailableExpiries : e >= eo.args.asof => req.expiry <= e
            ELSE \A e \in AvailableExpiries : e <= req.expiry

\* all expiries are before asof and the later of the two is picked
C17_Witness ==
  /\ PickedNearest
  /\ Cardinality(AvailableExpiries) = 2
  /\ \A e \in AvailableExpiries : e < eo.args.asof
  /\ \E e \in AvailableExpiries : e < req.expiry

\* an operation called without an expiry has ended, and the expiry that
\* pick_nearest_expiry had to choose for it is asof (an expiry on asof is
\* available) or lies before asof (all available expiries do)
PickedNotAfterAsof ==
  /\ PickedNearest
  /\ eo.pc = "done"
  /\ AvailableExpiries # {}
  /\ \/ eo.args.asof \in AvailableExpiries
     \/ \A e \in AvailableExpiries : e < eo.args.asof

C25_WitnessPast ==
  /\ PickedNotAfterAsof
  /\ eo.name = "strike_and_premium_for_delta_right"
  /\ \A e \in AvailableExpiries : e < eo.args.asof
  /\ eo.result = OpRaised(ErrExpiry)


(***************************************************************************)
(* Properties of the providers' quotes, checked under QuoteSpec.           *)
(***************************************************************************)
\* C18 as stated: the mid is (bid + ask) / 2 when bid and ask are both present
\* and both positive, otherwise last if it is present, otherwise absent.
C18_MidPrice ==
  quote.pc = "done" =>
    quote.mid = IF /\ quote.bid.ok /\ quote.ask.ok
                   /\ quote.bid.v > 0 /\ quote.ask.v > 0
                THEN Some((quote.bid.v + quote.ask.v) \div 2)
                ELSE IF quote.last.ok THEN quote.last ELSE None

(***************************************************************************)
(* Properties of HttpClient, checked under HttpSpec.                       *)
(***************************************************************************)
\* attempt i of the call failed
AttemptFailed(i) == AttemptError(ht.method, ht.answers[i]) # ""

\* C20: a call makes at most max_retries attempts, one after the other; it
\* returns at the first attempt that succeeds and makes no attempt after it;
\* between failed attempt i and the next it sleeps backoff_s * i; after the
\* failure of attempt max_retries it raises that attempt's error without a
\* sleep; transport errors, HTTP statuses >= 400 and, for get_json, bodies
\* that are not JSON all count as failures.
C20_RetryWithBackoff ==
  /\ [](/\ ht.made <= ht.max_retries
        /\ \A i \in 1..Len(ht.sleeps) : ht.sleeps[i] = ht.backoff_s * i
        /\ (ht.pc = "loop") =>
             /\ Len(ht.sleeps) = ht.made
             /\ \A i \in 1..ht.made : AttemptFailed(i)
        /\ (ht.result.kind = "return") =>
             /\ ht.result.attempt = ht.made
             /\ ~AttemptFailed(ht.made)
             /\ \A i \in 1..(ht.made - 1) : AttemptFailed(i)
             /\ Len(ht.sleeps) = ht.made - 1
        /\ (ht.result.kind = "raise" /\ ht.max_retries >= 1) =>
             /\ ht.made = ht.max_retries
             /\ \A i \in 1..ht.made : AttemptFailed(i)
             /\ ht.result.attempt = ht.max_retries
             /\ ht.result.error = AttemptError(ht.method, ht.answers[ht.max_retries])
             /\ Len(ht.sleeps) = ht.max_retries - 1)
  /\ [][ /\ ht'.made \in {ht.made, ht.made + 1}
         /\ (ht.pc = "done") => (ht' = ht) ]_vars

\* get_json fails with a status, then with a body that is not JSON, sleeps
\* after each, and returns at the third attempt
C20_Witness ==
  /\ ht.method = "get_json" /\ ht.max_retries = 3
  /\ ht.answers[1] = "status" /\ ht.answers[2] = "nonjson"
  /\ ht.result.kind = "return" /\ ht.result.attempt = 3
  /\ ht.sleeps = << ht.backoff_s, 2 * ht.backoff_s >>

(***************************************************************************)
(* Properties of the crumb cache, checked under YahooSpec.                 *)
(***************************************************************************)
\* C21: no crumb request is made before the first _ensure_crumb call; once
\* _ensure_crumb has returned a token, every later call returns that token
\* and issues no crumb request, and the cache keeps it; an _ensure_crumb
\* call that raises leaves the cache empty, and a call that finds the cache
\* empty requests the quote page.
C21_CrumbCache ==
  /\ [](/\ (yf.ensures = 0) => (yf.acq = 0 /\ ~yf.crumb.ok)
        /\ yf.first.ok => (yf.crumb = yf.first)
        /\ (yf.first.ok /\ yf.pc \in {"options", "idle"} /\ yf.ret # "") =>
             (yf.ret = yf.first.v)
        /\ (yf.entry.ok /\ yf.ensures > 0) =>
             (yf.cur = 0 /\ yf.ret = yf.entry.v)
        /\ (yf.ret = "raised") => ~yf.crumb.ok)
  /\ [][ /\ yf.crumb.ok => (yf'.crumb = yf.crumb /\ yf'.acq = yf.acq)
         /\ (yf.pc = "ensure" /\ ~yf.crumb.ok) => (yf'.acq = yf.acq + 1)
         /\ (yf.pc # "ensure" /\ yf.pc # "fallback") => (yf'.acq = yf.acq) ]_vars

\* the first _ensure_crumb call obtained its token with three crumb
\* requests (the quote page and two getcrumb attempts), and a call of the
\* second operation returned it from the cache with no request
C21_Witness ==
  /\ yf.nops = 2 /\ yf.ensures >= 3
  /\ yf.acq = 3 /\ yf.cur = 0
  /\ yf.entry.ok /\ yf.ret = yf.first.v

\* an _ensure_crumb call raised after trying both addresses, and the next
\* call acquired a token
C21_WitnessRetry ==
  /\ yf.ensures = 2 /\ yf.first.ok /\ ~yf.entry.ok
  /\ yf.acq > yf.cur /\ yf.cur > 0

(***************************************************************************)
(* Properties of Nasdaq.get_put_chain, checked under ScanSpec.             *)
(***************************************************************************)
\* payload row j is a header
IsHeader(j) == scan.rows[j].expirygroup.ok

\* the headers before payload row j
HeadersBefore(j) == { h \in 1..(j - 1) : IsHeader(h) }

\* payload row j is a data row whose strike is a number and whose most recent
\* preceding header is the text of the requested expiry
Included(j) ==
  /\ ~IsHeader(j)
  /\ scan.rows[j].strike.ok
  /\ HeadersBefore(j) # {}
  /\ \E h \in HeadersBefore(j) :
       /\ \A g \in HeadersBefore(j) : g <= h
       /\ scan.rows[h].expirygroup.v = scan.expiry
       /\ scan.rows[h].expirygroup.v # BadGroup

\* the payload rows before position n that are included
IncludedBefore(n) == { j \in 1..(n - 1) : Included(j) }

\* the chain c is made of the included rows, each once, in ascending order of
\* strike
ChainOfIncluded(c) ==
  /\ Len(c) = Cardinality(IncludedBefore(Len(scan.rows) + 1))
  /\ \A k \in 1..(Len(c) - 1) : c[k].strike <= c[k + 1].strike
  /\ \E f \in [1..Len(c) -> IncludedBefore(Len(scan.rows) + 1)] :
       /\ \A k, l \in 1..Len(c) : (k # l) => (f[k] # f[l])
       /\ \A k \in 1..Len(c) :
            /\ c[k].strike = scan.rows[f[k]].strike.v
            /\ c[k].bid = scan.rows[f[k]].bid
            /\ c[k].ask = scan.rows[f[k]].ask
            /\ c[k].last = scan.rows[f[k]].last

\* C26: the rows are scanned in payload order; a data row is taken exactly if
\* the most recent header before it parsed to the requested expiry and its
\* strike is a number, so data rows before any header, after a header that
\* does not parse or after one of another date are left out, and so are the
\* headers; the chain returned is the rows taken, sorted by ascending strike,
\* and the call fails when no row was taken.
C26_ChainOfRequestedExpiry ==
  /\ [](/\ (scan.pc = "loop") =>
             Len(scan.puts) = Cardinality(IncludedBefore(scan.i))
        /\ (scan.pc = "done" /\ ~scan.fail) =>
             IF IncludedBefore(Len(scan.rows) + 1) = {}
             THEN /\ scan.result.kind = "raise"
                  /\ scan.result.error =
                       (IF scan.rows = << >> THEN ErrNoRows ELSE ErrNoPuts)
             ELSE /\ scan.result.kind = "return"
                  /\ ChainOfIncluded(scan.result.chain))
  /\ [][(scan.pc = "loop" /\ scan'.pc = "loop") =>
          /\ scan'.i = scan.i + 1
          /\ scan'.puts = IF Included(scan.i)
                          THEN Append(scan.puts, PutRecord(scan.rows[scan.i]))
                          ELSE scan.puts]_vars

\* a payload with a header of another date, then the header of the requested
\* expiry and two data rows in descending order of strike: both are returned,
\* in ascending order
C26_Witness ==
  /\ scan.pc = "done" /\ scan.result.kind = "return"
  /\ Len(scan.rows) = 4
  /\ IsHeader(1) /\ scan.rows[1].expirygroup.v # scan.expiry
  /\ IsHeader(2) /\ Included(3) /\ Included(4)
  /\ scan.rows[3].strike.v > scan.rows[4].strike.v
  /\ Len(scan.result.chain) = 2
  /\ scan.result.chain[1].strike = scan.rows[4].strike.v

\* data rows before any header and after a header of another date are left
\* out, and the header that carries a strike is not returned
C26_WitnessLeftOut ==
  /\ scan.pc = "done" /\ scan.result.kind = "return"
  /\ Len(scan.rows) = 4
  /\ ~IsHeader(1) /\ scan.rows[1].strike.ok
  /\ IsHeader(2) /\ scan.rows[2].strike.ok
  /\ Included(3)
  /\ Len(scan.result.chain) = 1

=============================================================================
